---- MODULE Spec2Model ----
(***************************************************************************)
(* MIPS-lite five-stage pipeline simulator (FunctionalSimulator) together  *)
(* with its collaborators: RegisterFile, Stats and the memory parser.      *)
(*                                                                         *)
(* A 32-bit word is represented by its two's-complement (int32_t) value,   *)
(* an integer in -2^31 .. 2^31-1; a uint32_t field holds the same bits.    *)
(* All 32-bit arithmetic is done on 16-bit halves so that it wraps modulo  *)
(* 2^32 exactly as the machine does.                                       *)
(***************************************************************************)
EXTENDS Integers, Sequences, FiniteSets, TLC

(***************************************************************************)
(* Bounds of the model.                                                    *)
(***************************************************************************)
\* Number of instruction words in front of the closing HALT of a program.
ProgLen == 3
\* The embedder's cycle budget (timeout_cycles_ in main.cpp, 1000 in the tests).
MaxCycles == 18

\* the calls made on a MemoryParser in one run
MaxCalls == 3

(***************************************************************************)
(* 32-bit machine arithmetic.                                              *)
(***************************************************************************)
Half == 256 * 256

MinInt32 == -2147483647 - 1

Lo16(a) == a % Half

\* upper half as a signed 16-bit number: a = Hi16(a) * 2^16 + Lo16(a)
Hi16(a) == a \div Half

\* upper half as an unsigned 16-bit number
Hi16u(a) == Hi16(a) % Half

Signed16(u) == IF u >= 32768 THEN u - Half ELSE u

\* the int32_t whose upper and lower unsigned halves are hi and lo
Join32(hi, lo) == Signed16(hi % Half) * Half + (lo % Half)

\* a + b modulo 2^32
Add32(a, b) ==
    LET lo == Lo16(a) + Lo16(b)
        hi == Hi16u(a) + Hi16u(b) + (lo \div Half)
    IN  Join32(hi, lo)

\* -b modulo 2^32
Neg32(b) == IF b = MinInt32 THEN MinInt32 ELSE 0 - b

\* a - b modulo 2^32
Sub32(a, b) == Add32(a, Neg32(b))

\* low 16 bits of x * y for 16-bit unsigned x, y
MulLo16(x, y) == (x * (y % 256) + ((x * (y \div 256)) % 256) * 256) % Half

\* a * b modulo 2^32
Mul32(a, b) ==
    LET aL == Lo16(a)
        bL == Lo16(b)
        p1 == aL * (bL \div 256)
        p0 == aL * (bL % 256)
        t  == (p1 % 256) * 256 + p0
        lo == t % Half
        carry == (p1 \div 256) + (t \div Half)
        hi == carry + MulLo16(Hi16u(a), bL) + MulLo16(aL, Hi16u(b))
    IN  Join32(hi, lo)

RECURSIVE Bits16(_, _, _, _)
\* bitwise operation op on the low n bits of the unsigned 16-bit x and y
Bits16(op, x, y, n) ==
    IF n = 0 THEN 0
    ELSE LET bx == x % 2
             by == y % 2
             b  == CASE op = "or"  -> (IF bx + by > 0 THEN 1 ELSE 0)
                    [] op = "and" -> bx * by
                    [] op = "xor" -> (bx + by) % 2
         IN  b + 2 * Bits16(op, x \div 2, y \div 2, n - 1)

Bits32(op, a, b) ==
    Join32(Bits16(op, Hi16u(a), Hi16u(b), 16), Bits16(op, Lo16(a), Lo16(b), 16))

Or32(a, b) == Bits32("or", a, b)

And32(a, b) == Bits32("and", a, b)

Xor32(a, b) == Bits32("xor", a, b)

Pow2(n) == 2 ^ n

(***************************************************************************)
(* mips_lite_defs.h: opcodes, field extraction, classification.            *)
(***************************************************************************)
ADD  == 0
ADDI == 1
SUB  == 2
SUBI == 3
MUL  == 4
MULI == 5
OR   == 6
ORI  == 7
AND  == 8
ANDI == 9
XOR  == 10
XORI == 11
LDW  == 12
STW  == 13
BZ   == 14
BEQ  == 15
JR   == 16
HALT == 17

NUM_REGISTERS == 32

WORD_SIZE == 4

MAX_MEMORY_SIZE == 4096

\* (value >> start) & ((1 << length) - 1) on the bits of the word
extract_bits(value, start, length) == (value \div Pow2(start)) % Pow2(length)

get_opcode(instruction) == extract_bits(instruction, 26, 6)

get_rs(instruction) == extract_bits(instruction, 21, 5)

get_rt(instruction) == extract_bits(instruction, 16, 5)

\* a variant of get_rd that takes one bit too few
get_rdNarrow(instruction) == extract_bits(instruction, 11, 4)

get_rd(instruction) == extract_bits(instruction, 11, 5)

\* static_cast<int16_t> of the low 16 bits, then widened to int32_t
\* a variant of get_immediate that does not extend the sign
get_immediateUnsigned(instruction) == extract_bits(instruction, 0, 16)

get_immediate(instruction) == Signed16(extract_bits(instruction, 0, 16))

get_instruction_type(opcode) ==
    IF opcode \in {ADD, SUB, MUL, OR, AND, XOR} THEN "R_TYPE" ELSE "I_TYPE"

Categories == {"ARITHMETIC", "LOGICAL", "MEMORY_ACCESS", "CONTROL_FLOW"}

\* "invalid" stands for the std::invalid_argument thrown on the default branch
get_instruction_category(opcode) ==
    CASE opcode \in {ADD, ADDI, SUB, SUBI, MUL, MULI} -> "ARITHMETIC"
      [] opcode \in {OR, ORI, AND, ANDI, XOR, XORI}   -> "LOGICAL"
      [] opcode \in {LDW, STW}                        -> "MEMORY_ACCESS"
      [] opcode \in {BZ, BEQ, JR, HALT}               -> "CONTROL_FLOW"
      [] OTHER                                        -> "invalid"

is_halt_instruction(instruction) == get_opcode(instruction) = HALT

(***************************************************************************)
(* mips_instruction.cpp: the decoded Instruction.  NoValue stands for an   *)
(* empty std::optional.                                                    *)
(***************************************************************************)
NoValue == -1

Instruction(word) ==
    LET op == get_opcode(word)
        ty == get_instruction_type(op)
    IN  [ instruction_ |-> word,
          opcode_ |-> op,
          rs_ |-> get_rs(word),
          rt_ |-> get_rt(word),
          hasRd |-> (ty = "R_TYPE"),
          rd_ |-> IF ty = "R_TYPE" THEN get_rd(word) ELSE NoValue,
          hasImmediate |-> (ty = "I_TYPE"),
          immediate_ |-> IF ty = "I_TYPE" THEN get_immediate(word) ELSE 0,
          instruction_type_ |-> ty ]

(***************************************************************************)
(* functional_simulator.h: pipeline stages and the per-stage record.       *)
(***************************************************************************)
FETCH == 0
DECODE == 1
EXECUTE == 2
MEMORY == 3
WRITEBACK == 4

NUM_STAGES == 5

Stages == 0 .. (NUM_STAGES - 1)

\* A null pipeline[stage] pointer.  The field "instruction" holds the raw
\* word of the Instruction object; "id" is the fetch ordinal of the
\* instruction (history only, the engine never reads it).
EmptySlot ==
    [ valid |-> FALSE, instruction |-> 0, pc |-> 0, rs_value |-> 0,
      rt_value |-> 0, alu_result |-> 0, memory_data |-> 0,
      dest_reg |-> NoValue, id |-> 0 ]

\* PipelineStageData() as filled in by instructionFetch
PipelineStageData(word, program_counter, ident) ==
    [ EmptySlot EXCEPT !.valid = TRUE, !.instruction = word,
                       !.pc = program_counter, !.id = ident ]

Instr(slot) == Instruction(slot.instruction)

isStageEmpty(s, stage) == ~s.pipeline[stage].valid

(***************************************************************************)
(* History of every fetched instruction, indexed by its fetch ordinal: the *)
(* cycle numbers at which it passed each step (0: not yet).                *)
(***************************************************************************)
LogEntry(word, program_counter, cyc) ==
    [ word |-> word, pc |-> program_counter, fetched |-> cyc,
      entered |-> 0, hazEx |-> FALSE, hazMem |-> FALSE, exLoad |-> FALSE,
      decoded |-> 0, executed |-> 0, taken |-> FALSE, target |-> 0,
      accessed |-> 0,
      stored |-> FALSE, storeAddr |-> 0, committed |-> 0, wroteReg |-> FALSE,
      flushed |-> 0 ]

(***************************************************************************)
(* register_file.h                                                         *)
(***************************************************************************)
RegisterFile == [r \in 0 .. (NUM_REGISTERS - 1) |-> 0]

RegRead(registers, reg) == IF reg = 0 THEN 0 ELSE registers[reg]

RegWrite(registers, reg, value) ==
    IF reg # 0 THEN [registers EXCEPT ![reg] = value] ELSE registers

(***************************************************************************)
(* Memory behind IMemoryParser.  memory_content_ holds the words of the    *)
(* image; word i of the sequence is the word at address 4 * (i - 1).       *)
(***************************************************************************)
\* the checks at the head of MemoryParser::readMemory
readMemoryCheck(address) ==
    IF address % 4 # 0 THEN "Unaligned"
    ELSE IF address < 0 \/ address >= MAX_MEMORY_SIZE THEN "OutOfBounds"
    ELSE "none"

\* the checks at the head of MemoryParser::writeMemory, then seekToLine's
writeMemoryCheck(address) ==
    IF address % 4 # 0 THEN "Unaligned"
    ELSE IF address < 0 \/ address > MAX_MEMORY_SIZE THEN "OutOfBounds"
    ELSE IF address \div 4 >= MAX_MEMORY_SIZE \div WORD_SIZE THEN "LineNumberExceeds"
    ELSE "none"

\* a word never written and beyond the image reads as zero
MemValue(mem, address) ==
    LET i == (address \div 4) + 1
    IN  IF i <= Len(mem) THEN mem[i] ELSE 0

\* the image grows with zero words up to the written line
MemStore(mem, address, value) ==
    LET i == (address \div 4) + 1
        grown == IF i <= Len(mem) THEN mem
                 ELSE mem \o [k \in 1 .. (i - Len(mem)) |-> 0]
    IN  [grown EXCEPT ![i] = value]

\* IMemoryParser::readInstruction shares the data contract
readInstructionCheck(address) == readMemoryCheck(address)

(***************************************************************************)
(* stats.cpp                                                               *)
(***************************************************************************)
incrementCategory(s, category) ==
    [s EXCEPT !.instructionCounts[category] = @ + 1]

addRegister(s, reg) == [s EXCEPT !.stat_registers = @ \cup {reg}]

addMemoryAddress(s, addr) == [s EXCEPT !.memoryAddresses = @ \cup {addr}]

incrementStalls(s) == [s EXCEPT !.stalls = @ + 1]

incrementClockCycles(s) == [s EXCEPT !.clockCycles = @ + 1]

totalInstructions(s) ==
    s.instructionCounts["ARITHMETIC"] + s.instructionCounts["LOGICAL"]
      + s.instructionCounts["MEMORY_ACCESS"] + s.instructionCounts["CONTROL_FLOW"]

(***************************************************************************)
(* functional_simulator.cpp: helpers.                                      *)
(***************************************************************************)
Raise(s, what) == [s EXCEPT !.error = what]

\* an exception that left step s ends the call: the later step t is not run
Unless(s, t) == IF s.error # "none" THEN s ELSE t

\* a variant of isRegisterWriteInstruction that counts STW as a writer
isRegisterWriteInstructionOrStore(instr) ==
    \/ instr.instruction_type_ = "R_TYPE"
    \/ instr.opcode_ \in {ADDI, SUBI, MULI, ORI, ANDI, XORI, LDW, STW}

isRegisterWriteInstruction(instr) ==
    \/ instr.instruction_type_ = "R_TYPE"
    \/ instr.opcode_ \in {ADDI, SUBI, MULI, ORI, ANDI, XORI, LDW}

\* a variant of needsRtValue that takes rt for a source of every instruction
needsRtValueAlways(instr) == TRUE

needsRtValue(instr) ==
    \/ instr.instruction_type_ = "R_TYPE"
    \/ instr.opcode_ \in {BEQ, STW}

causesHazard(reg, dest_reg) == reg # 0 /\ reg = dest_reg

\* Variants of the hazard unit with one decision changed; the properties
\* below are re-checked against them to show which decision they rest on.
checkExecuteStageAlways(s, rs, rt, needs_rt) ==
    LET dest_reg == s.pipeline[EXECUTE].dest_reg
    IN  /\ ~isStageEmpty(s, EXECUTE)
        /\ dest_reg # NoValue
        /\ causesHazard(rs, dest_reg) \/ (needs_rt /\ causesHazard(rt, dest_reg))

checkMemoryStageNever(s, rs, rt, needs_rt) == FALSE

checkMemoryStageInverted(s, rs, rt, needs_rt) ==
    LET dest_reg == s.pipeline[MEMORY].dest_reg
    IN  /\ ~isStageEmpty(s, MEMORY)
        /\ dest_reg # NoValue
        /\ causesHazard(rs, dest_reg) \/ (needs_rt /\ causesHazard(rt, dest_reg))
        /\ s.forward

readRegisterValueStale(s, reg_num) ==
    [error |-> "none", value |-> RegRead(s.registers, reg_num)]

\* a variant of the Execute check that stalls for a load only, whatever the
\* forwarding mode
checkExecuteStageLoadOnly(s, rs, rt, needs_rt) ==
    LET ex_data == s.pipeline[EXECUTE]
        dest_reg == ex_data.dest_reg
        rs_hazard == causesHazard(rs, dest_reg)
        rt_hazard == needs_rt /\ causesHazard(rt, dest_reg)
    IN  IF isStageEmpty(s, EXECUTE) THEN FALSE
        ELSE IF dest_reg = NoValue THEN FALSE
        ELSE IF rs_hazard \/ rt_hazard THEN Instr(ex_data).opcode_ = LDW
        ELSE FALSE

checkExecuteStageForHazard(s, rs, rt, needs_rt) ==
    LET ex_data == s.pipeline[EXECUTE]
        dest_reg == ex_data.dest_reg
        rs_hazard == causesHazard(rs, dest_reg)
        rt_hazard == needs_rt /\ causesHazard(rt, dest_reg)
    IN  IF isStageEmpty(s, EXECUTE) THEN FALSE
        ELSE IF dest_reg = NoValue THEN FALSE
        ELSE IF rs_hazard \/ rt_hazard
             THEN IF s.forward
                  THEN Instr(ex_data).opcode_ = LDW
                  ELSE TRUE
        ELSE FALSE

\* a variant of the Memory-stage check that stalls with forwarding as well
checkMemoryStageIgnoresForward(s, rs, rt, needs_rt) ==
    LET mem_data == s.pipeline[MEMORY]
        dest_reg == mem_data.dest_reg
        rs_hazard == causesHazard(rs, dest_reg)
        rt_hazard == needs_rt /\ causesHazard(rt, dest_reg)
    IN  IF isStageEmpty(s, MEMORY) THEN FALSE
        ELSE IF dest_reg = NoValue THEN FALSE
        ELSE rs_hazard \/ rt_hazard

checkMemoryStageForHazard(s, rs, rt, needs_rt) ==
    LET mem_data == s.pipeline[MEMORY]
        dest_reg == mem_data.dest_reg
        rs_hazard == causesHazard(rs, dest_reg)
        rt_hazard == needs_rt /\ causesHazard(rt, dest_reg)
    IN  IF isStageEmpty(s, MEMORY) THEN FALSE
        ELSE IF dest_reg = NoValue THEN FALSE
        ELSE IF rs_hazard \/ rt_hazard THEN ~s.forward
        ELSE FALSE

detectStalls(s) ==
    LET instr == Instr(s.pipeline[DECODE])
        rs == instr.rs_
        rt == instr.rt_
        needs_rt == needsRtValue(instr)
    IN  IF isStageEmpty(s, DECODE) THEN FALSE
        ELSE IF rs = 0 /\ (~needs_rt \/ rt = 0) THEN FALSE
        ELSE IF checkExecuteStageForHazard(s, rs, rt, needs_rt) THEN TRUE
        ELSE IF checkMemoryStageForHazard(s, rs, rt, needs_rt) THEN TRUE
        ELSE FALSE

\* a variant of readRegisterValue that looks at Memory before Execute
readRegisterValueMemoryFirst(s, reg_num) ==
    LET ex_data == s.pipeline[EXECUTE]
        mem_data == s.pipeline[MEMORY]
    IN  IF reg_num = 0 THEN [error |-> "none", value |-> 0]
        ELSE IF s.stall THEN [error |-> "StallRead", value |-> 0]
        ELSE IF mem_data.valid /\ mem_data.dest_reg # NoValue
                  /\ mem_data.dest_reg = reg_num
             THEN [error |-> "none",
                   value |-> IF Instr(mem_data).opcode_ = LDW
                             THEN mem_data.memory_data
                             ELSE mem_data.alu_result]
        ELSE IF ex_data.valid /\ ex_data.dest_reg # NoValue
                  /\ ex_data.dest_reg = reg_num
             THEN IF Instr(ex_data).opcode_ = LDW
                  THEN [error |-> "LoadForward", value |-> 0]
                  ELSE [error |-> "none", value |-> ex_data.alu_result]
        ELSE [error |-> "none", value |-> RegRead(s.registers, reg_num)]

\* the value or the exception of readRegisterValue(reg_num)
readRegisterValue(s, reg_num) ==
    LET ex_data == s.pipeline[EXECUTE]
        mem_data == s.pipeline[MEMORY]
    IN  IF reg_num = 0 THEN [error |-> "none", value |-> 0]
        ELSE IF s.stall THEN [error |-> "StallRead", value |-> 0]
        ELSE IF ex_data.valid /\ ex_data.dest_reg # NoValue
                  /\ ex_data.dest_reg = reg_num
             THEN IF Instr(ex_data).opcode_ = LDW
                  THEN [error |-> "LoadForward", value |-> 0]
                  ELSE [error |-> "none", value |-> ex_data.alu_result]
        ELSE IF mem_data.valid /\ mem_data.dest_reg # NoValue
                  /\ mem_data.dest_reg = reg_num
             THEN [error |-> "none",
                   value |-> IF Instr(mem_data).opcode_ = LDW
                             THEN mem_data.memory_data
                             ELSE mem_data.alu_result]
        ELSE [error |-> "none", value |-> RegRead(s.registers, reg_num)]

checkProgramCompletion(s) ==
    /\ s.halt_pipeline
    /\ \A stage \in Stages : ~s.pipeline[stage].valid

(***************************************************************************)
(* functional_simulator.cpp: the five stage methods.  Each maps the engine *)
(* record s to the record after the call; s.error names the exception that *)
(* left the call, with the state as the partial call left it.              *)
(***************************************************************************)
Note(s, slot, field, value) ==
    [s EXCEPT !.log[slot.id] = [@ EXCEPT ![field] = value]]

\* a variant of instructionFetch that ignores the HALT latch
instructionFetchPastHalt(s) ==
    LET check == readInstructionCheck(s.pc)
        instruction_word == MemValue(s.memory_content_, s.pc)
        ident == Len(s.log) + 1
    IN  IF s.pipeline[FETCH].valid THEN s
        ELSE IF check # "none" THEN Raise(s, check)
        ELSE [s EXCEPT
                !.halt_pipeline = @ \/ is_halt_instruction(instruction_word),
                !.pipeline[FETCH] = PipelineStageData(instruction_word, s.pc, ident),
                !.pc = Add32(s.pc, 4),
                !.log = Append(@, LogEntry(instruction_word, s.pc, s.clockCycles))]

instructionFetch(s) ==
    LET check == readInstructionCheck(s.pc)
        instruction_word == MemValue(s.memory_content_, s.pc)
        ident == Len(s.log) + 1
    IN  IF s.pipeline[FETCH].valid \/ s.halt_pipeline THEN s
        ELSE IF check # "none" THEN Raise(s, check)
        ELSE [s EXCEPT
                !.halt_pipeline = is_halt_instruction(instruction_word),
                !.pipeline[FETCH] = PipelineStageData(instruction_word, s.pc, ident),
                !.pc = Add32(s.pc, 4),
                !.log = Append(@, LogEntry(instruction_word, s.pc, s.clockCycles))]

instructionDecode(s) ==
    LET id_data == s.pipeline[DECODE]
        instr == Instr(id_data)
        rsv == readRegisterValue(s, instr.rs_)
        needs == needsRtValue(instr)
        rtv == IF needs THEN readRegisterValue(s, instr.rt_)
               ELSE [error |-> "none", value |-> id_data.rt_value]
        dest == IF isRegisterWriteInstruction(instr)
                THEN (IF instr.hasRd THEN instr.rd_ ELSE instr.rt_)
                ELSE NoValue
    IN  IF ~id_data.valid \/ s.stall THEN s
        ELSE IF rsv.error # "none" THEN Raise(s, rsv.error)
        ELSE IF rtv.error # "none"
             THEN Raise([s EXCEPT !.pipeline[DECODE].rs_value = rsv.value], rtv.error)
        ELSE Note([s EXCEPT !.pipeline[DECODE].rs_value = rsv.value,
                            !.pipeline[DECODE].rt_value = rtv.value,
                            !.pipeline[DECODE].dest_reg = dest],
                  id_data, "decoded", s.clockCycles)

\* the switch of execute(): the ALU result, and whether the opcode is known
ALU(opcode, rs_value, rt_value, immediate, stage_pc, cur_pc) ==
    CASE opcode = ADD  -> Add32(rs_value, rt_value)
      [] opcode = ADDI -> Add32(rs_value, immediate)
      [] opcode = SUB  -> Sub32(rs_value, rt_value)
      [] opcode = SUBI -> Sub32(rs_value, immediate)
      [] opcode = MUL  -> Mul32(rs_value, rt_value)
      [] opcode = MULI -> Mul32(rs_value, immediate)
      [] opcode = OR   -> Or32(rs_value, rt_value)
      [] opcode = ORI  -> Or32(rs_value, immediate)
      [] opcode = AND  -> And32(rs_value, rt_value)
      [] opcode = ANDI -> And32(rs_value, immediate)
      [] opcode = XOR  -> Xor32(rs_value, rt_value)
      [] opcode = XORI -> Xor32(rs_value, immediate)
      [] opcode = LDW  -> Add32(rs_value, immediate)
      [] opcode = STW  -> Add32(rs_value, immediate)
      [] opcode = BZ   -> IF rs_value = 0
                          THEN Add32(stage_pc, Mul32(immediate, 4))
                          ELSE stage_pc
      [] opcode = BEQ  -> IF rs_value = rt_value
                          THEN Add32(stage_pc, Mul32(immediate, 4))
                          ELSE stage_pc
      [] opcode = JR   -> rs_value
      [] opcode = HALT -> cur_pc
      [] OTHER         -> 0

\* a variant in which every BZ and BEQ counts as taken
BranchOutcomeAlways(opcode, rs_value, rt_value, before) ==
    CASE opcode = BZ  -> TRUE
      [] opcode = BEQ -> TRUE
      [] opcode = JR  -> TRUE
      [] OTHER        -> before

\* what execute() leaves in branch_taken
BranchOutcome(opcode, rs_value, rt_value, before) ==
    CASE opcode = BZ  -> (rs_value = 0)
      [] opcode = BEQ -> (rs_value = rt_value)
      [] opcode = JR  -> TRUE
      [] OTHER        -> before

execute(s) ==
    LET ex_data == s.pipeline[EXECUTE]
        instr == Instr(ex_data)
        opcode == instr.opcode_
        taken == BranchOutcome(opcode, ex_data.rs_value, ex_data.rt_value,
                               s.branch_taken)
        result == ALU(opcode, ex_data.rs_value, ex_data.rt_value,
                      instr.immediate_, ex_data.pc, s.pc)
        done == [s EXCEPT !.pipeline[EXECUTE].alu_result = result,
                          !.branch_taken = taken,
                          !.halt_pipeline = IF opcode = HALT THEN TRUE ELSE @]
    IN  IF ~ex_data.valid THEN s
        ELSE IF opcode \notin 0 .. HALT THEN Raise(s, "InvalidOpcode")
        ELSE Note(Note(Note(done, ex_data, "executed", s.clockCycles),
                       ex_data, "taken", opcode \in {BZ, BEQ, JR} /\ taken),
                  ex_data, "target", result)

\* a variant of memory() that stores the rs value of the slot
memoryStoresRs(s) ==
    LET mem_data == s.pipeline[MEMORY]
        opcode == Instr(mem_data).opcode_
        addr == mem_data.alu_result
        rcheck == readMemoryCheck(addr)
        wcheck == writeMemoryCheck(addr)
        seen == Note(s, mem_data, "accessed", s.clockCycles)
    IN  IF ~mem_data.valid THEN s
        ELSE IF opcode = LDW
             THEN IF rcheck # "none" THEN Raise(s, rcheck)
                  ELSE [seen EXCEPT !.pipeline[MEMORY].memory_data =
                                        MemValue(s.memory_content_, addr)]
        ELSE IF opcode = STW
             THEN IF wcheck # "none" THEN Raise(s, wcheck)
                  ELSE addMemoryAddress(
                         [Note(Note(seen, mem_data, "stored", TRUE),
                               mem_data, "storeAddr", addr)
                            EXCEPT !.memory_content_ =
                                     MemStore(@, addr, mem_data.rs_value)],
                         addr)
        ELSE seen

memory(s) ==
    LET mem_data == s.pipeline[MEMORY]
        opcode == Instr(mem_data).opcode_
        addr == mem_data.alu_result
        rcheck == readMemoryCheck(addr)
        wcheck == writeMemoryCheck(addr)
        seen == Note(s, mem_data, "accessed", s.clockCycles)
    IN  IF ~mem_data.valid THEN s
        ELSE IF opcode = LDW
             THEN IF rcheck # "none" THEN Raise(s, rcheck)
                  ELSE [seen EXCEPT !.pipeline[MEMORY].memory_data =
                                        MemValue(s.memory_content_, addr)]
        ELSE IF opcode = STW
             THEN IF wcheck # "none" THEN Raise(s, wcheck)
                  ELSE addMemoryAddress(
                         [Note(Note(seen, mem_data, "stored", TRUE),
                               mem_data, "storeAddr", addr)
                            EXCEPT !.memory_content_ =
                                     MemStore(@, addr, mem_data.rt_value)],
                         addr)
        ELSE seen

\* a variant of writeBack that leaves the HALT out of the category counts
writeBackUncountedHalt(s) ==
    LET wb_data == s.pipeline[WRITEBACK]
        opcode == Instr(wb_data).opcode_
        category == get_instruction_category(opcode)
        counted == Note(IF opcode = HALT THEN s
                        ELSE incrementCategory(s, category),
                        wb_data, "committed", s.clockCycles)
        dest == wb_data.dest_reg
        value == IF opcode = LDW THEN wb_data.memory_data ELSE wb_data.alu_result
    IN  IF ~wb_data.valid THEN s
        ELSE IF category = "invalid" THEN Raise(s, "InvalidCategory")
        ELSE IF dest # NoValue
             THEN addRegister(
                    [Note(counted, wb_data, "wroteReg", TRUE)
                       EXCEPT !.registers = RegWrite(@, dest, value)],
                    dest)
        ELSE counted

writeBack(s) ==
    LET wb_data == s.pipeline[WRITEBACK]
        opcode == Instr(wb_data).opcode_
        category == get_instruction_category(opcode)
        counted == Note(incrementCategory(s, category), wb_data,
                        "committed", s.clockCycles)
        dest == wb_data.dest_reg
        value == IF opcode = LDW THEN wb_data.memory_data ELSE wb_data.alu_result
    IN  IF ~wb_data.valid THEN s
        ELSE IF category = "invalid" THEN Raise(s, "InvalidCategory")
        ELSE IF dest # NoValue
             THEN addRegister(
                    [Note(counted, wb_data, "wroteReg", TRUE)
                       EXCEPT !.registers = RegWrite(@, dest, value)],
                    dest)
        ELSE counted

\* a variant of the advance step in which a stall holds every stage
advancePipelineFrozen(s) ==
    IF s.stall
    THEN incrementStalls(s)
    ELSE [s EXCEPT !.pipeline[WRITEBACK] = s.pipeline[MEMORY],
                   !.pipeline[MEMORY] = s.pipeline[EXECUTE],
                   !.pipeline[EXECUTE] = s.pipeline[DECODE],
                   !.pipeline[DECODE] = s.pipeline[FETCH],
                   !.pipeline[FETCH] = EmptySlot]

\* a variant of the advance step in which a stall inserts no bubble
advancePipelineNoBubble(s) ==
    IF s.stall
    THEN incrementStalls(
           [s EXCEPT !.pipeline[WRITEBACK] = s.pipeline[MEMORY],
                     !.pipeline[MEMORY] = s.pipeline[EXECUTE],
                     !.pipeline[EXECUTE] = s.pipeline[DECODE]])
    ELSE [s EXCEPT !.pipeline[WRITEBACK] = s.pipeline[MEMORY],
                   !.pipeline[MEMORY] = s.pipeline[EXECUTE],
                   !.pipeline[EXECUTE] = s.pipeline[DECODE],
                   !.pipeline[DECODE] = s.pipeline[FETCH],
                   !.pipeline[FETCH] = EmptySlot]

\* a variant of the advance step that commits the result of the slot it
\* moves into Writeback
advancePipelineCommits(s) ==
    LET leaving == s.pipeline[MEMORY]
        moved == IF s.stall
                 THEN incrementStalls(
                        [s EXCEPT !.pipeline[WRITEBACK] = s.pipeline[MEMORY],
                                  !.pipeline[MEMORY] = s.pipeline[EXECUTE],
                                  !.pipeline[EXECUTE] = EmptySlot])
                 ELSE [s EXCEPT !.pipeline[WRITEBACK] = s.pipeline[MEMORY],
                                !.pipeline[MEMORY] = s.pipeline[EXECUTE],
                                !.pipeline[EXECUTE] = s.pipeline[DECODE],
                                !.pipeline[DECODE] = s.pipeline[FETCH],
                                !.pipeline[FETCH] = EmptySlot]
    IN  IF leaving.valid /\ leaving.dest_reg # NoValue
        THEN [moved EXCEPT !.registers =
                 RegWrite(@, leaving.dest_reg, leaving.alu_result)]
        ELSE moved

\* a variant of the advance step that issues the stalled instruction into
\* Execute while it also stays in Decode
advancePipelineReplays(s) ==
    IF s.stall
    THEN incrementStalls(
           [s EXCEPT !.pipeline[WRITEBACK] = s.pipeline[MEMORY],
                     !.pipeline[MEMORY] = s.pipeline[EXECUTE],
                     !.pipeline[EXECUTE] = s.pipeline[DECODE]])
    ELSE [s EXCEPT !.pipeline[WRITEBACK] = s.pipeline[MEMORY],
                   !.pipeline[MEMORY] = s.pipeline[EXECUTE],
                   !.pipeline[EXECUTE] = s.pipeline[DECODE],
                   !.pipeline[DECODE] = s.pipeline[FETCH],
                   !.pipeline[FETCH] = EmptySlot]

\* a variant of advancePipeline that leaves the Fetch slot in place when it
\* moves the others
advancePipelineKeepsFetch(s) ==
    IF s.stall
    THEN incrementStalls(
           [s EXCEPT !.pipeline[WRITEBACK] = s.pipeline[MEMORY],
                     !.pipeline[MEMORY] = s.pipeline[EXECUTE],
                     !.pipeline[EXECUTE] = EmptySlot])
    ELSE [s EXCEPT !.pipeline[WRITEBACK] = s.pipeline[MEMORY],
                   !.pipeline[MEMORY] = s.pipeline[EXECUTE],
                   !.pipeline[EXECUTE] = s.pipeline[DECODE],
                   !.pipeline[DECODE] = s.pipeline[FETCH]]

\* a variant of advancePipeline whose stall holds the Execute slot as well
advancePipelineHoldsExecute(s) ==
    IF s.stall
    THEN incrementStalls(
           [s EXCEPT !.pipeline[WRITEBACK] = s.pipeline[MEMORY],
                     !.pipeline[MEMORY] = EmptySlot])
    ELSE [s EXCEPT !.pipeline[WRITEBACK] = s.pipeline[MEMORY],
                   !.pipeline[MEMORY] = s.pipeline[EXECUTE],
                   !.pipeline[EXECUTE] = s.pipeline[DECODE],
                   !.pipeline[DECODE] = s.pipeline[FETCH],
                   !.pipeline[FETCH] = EmptySlot]

advancePipeline(s) ==
    IF s.stall
    THEN incrementStalls(
           [s EXCEPT !.pipeline[WRITEBACK] = s.pipeline[MEMORY],
                     !.pipeline[MEMORY] = s.pipeline[EXECUTE],
                     !.pipeline[EXECUTE] = EmptySlot])
    ELSE [s EXCEPT !.pipeline[WRITEBACK] = s.pipeline[MEMORY],
                   !.pipeline[MEMORY] = s.pipeline[EXECUTE],
                   !.pipeline[EXECUTE] = s.pipeline[DECODE],
                   !.pipeline[DECODE] = s.pipeline[FETCH],
                   !.pipeline[FETCH] = EmptySlot]

\* history: the slots a taken branch empties
NoteFlush(s, stage) ==
    IF s.pipeline[stage].valid
    THEN Note(s, s.pipeline[stage], "flushed", s.clockCycles)
    ELSE s

\* a variant of the branch arm that leaves the Decode slot in place
takeBranchKeepDecode(s) ==
    IF ~s.pipeline[EXECUTE].valid THEN Raise(s, "BranchEmptyExecute")
    ELSE advancePipeline(
           [NoteFlush(NoteFlush(s, FETCH), DECODE)
              EXCEPT !.pc = s.pipeline[EXECUTE].alu_result,
                     !.pipeline[FETCH] = EmptySlot,
                     !.stall = FALSE,
                     !.branch_taken = FALSE])

\* a variant of the branch arm that fetches the target in the same cycle
takeBranchAndFetch(s) ==
    IF ~s.pipeline[EXECUTE].valid THEN Raise(s, "BranchEmptyExecute")
    ELSE LET fetched == instructionFetch(
                 [NoteFlush(NoteFlush(s, FETCH), DECODE)
                    EXCEPT !.pc = s.pipeline[EXECUTE].alu_result,
                           !.pipeline[FETCH] = EmptySlot,
                           !.pipeline[DECODE] = EmptySlot,
                           !.stall = FALSE,
                           !.branch_taken = FALSE])
         IN  Unless(fetched, advancePipeline(fetched))

\* the branch arm of cycle()
takeBranch(s) ==
    IF ~s.pipeline[EXECUTE].valid THEN Raise(s, "BranchEmptyExecute")
    ELSE advancePipeline(
           [NoteFlush(NoteFlush(s, FETCH), DECODE)
              EXCEPT !.pc = s.pipeline[EXECUTE].alu_result,
                     !.pipeline[FETCH] = EmptySlot,
                     !.pipeline[DECODE] = EmptySlot,
                     !.stall = FALSE,
                     !.branch_taken = FALSE])

\* history: the hazards the instruction meets in its first Decode cycle
NoteHazards(s) ==
    LET id_data == s.pipeline[DECODE]
        instr == Instr(id_data)
        ex_data == s.pipeline[EXECUTE]
        mem_data == s.pipeline[MEMORY]
        sources == {instr.rs_} \cup
                   (IF needsRtValue(instr) THEN {instr.rt_} ELSE {})
        against(slot) == slot.valid /\ slot.dest_reg # NoValue
                           /\ slot.dest_reg # 0 /\ slot.dest_reg \in sources
    IN  IF id_data.valid /\ s.log[id_data.id].entered = 0
        THEN [s EXCEPT !.log[id_data.id] =
                [@ EXCEPT !.entered = s.clockCycles,
                          !.hazEx = against(ex_data),
                          !.hazMem = against(mem_data),
                          !.exLoad = ex_data.valid /\ Instr(ex_data).opcode_ = LDW]]
        ELSE s

setStall(s) == [NoteHazards(s) EXCEPT !.stall = detectStalls(s)]

\* the arm of cycle() without a taken branch
noBranch(s) ==
    LET decoded == instructionDecode(setStall(s))
        fetched == Unless(decoded, instructionFetch(decoded))
    IN  Unless(fetched, advancePipeline(fetched))

dispatch(s) == IF s.branch_taken THEN takeBranch(s) ELSE noBranch(s)

\* a variant of cycle() that counts the clock before the completion test
cycleCountsFirst(s) ==
    IF checkProgramCompletion(s) THEN incrementClockCycles(s)
    ELSE LET written == writeBack(incrementClockCycles(s))
             accessed == Unless(written, memory(written))
             executed == Unless(accessed, execute(accessed))
         IN  Unless(executed, dispatch(executed))

\* a variant of cycle() that accesses memory before it commits
cycleMemoryFirst(s) ==
    IF checkProgramCompletion(s) THEN s
    ELSE LET accessed == memory(incrementClockCycles(s))
             written == Unless(accessed, writeBack(accessed))
             executed == Unless(written, execute(written))
         IN  Unless(executed, dispatch(executed))

cycle(s) ==
    IF checkProgramCompletion(s) THEN s
    ELSE LET written == writeBack(incrementClockCycles(s))
             accessed == Unless(written, memory(written))
             executed == Unless(accessed, execute(accessed))
         IN  Unless(executed, dispatch(executed))

(***************************************************************************)
(* mips_mem_parser.cpp: the MemoryParser over a file of one word per line. *)
(* file_ is the sequence of the lines, cursor the number of lines before   *)
(* the stream position (every call reads and writes whole lines; a line is *)
(* eight hex digits, so a word written over a line replaces it).  A call   *)
(* yields the parser after it, the exception that left it ("none" if       *)
(* none) and the value returned.                                           *)
(***************************************************************************)
\* the lines of a 4 KiB memory
MAX_LINE_COUNT == MAX_MEMORY_SIZE \div WORD_SIZE

PC_TO_LINE(program_counter) == program_counter \div 4

MemoryParser(lines) ==
    [ file_ |-> lines, cursor |-> 0, program_counter_ |-> 0,
      current_line_count_ |-> Len(lines) ]

Returned(p, value) == [p |-> p, error |-> "none", value |-> value]

Thrown(p, what) == [p |-> p, error |-> what, value |-> 0]

writeZeroLines(lines, num_to_add) == lines \o [k \in 1 .. num_to_add |-> 0]

seekToLine(p, lineNumber) ==
    LET curr_line_offset == PC_TO_LINE(p.program_counter_)
        ahead == lineNumber - curr_line_offset
        line_diff == lineNumber - p.current_line_count_
        grown == writeZeroLines(p.file_, line_diff)
    IN  IF lineNumber = curr_line_offset THEN Returned(p, 0)
        ELSE IF lineNumber >= MAX_LINE_COUNT THEN Thrown(p, "LineNumberExceeds")
        ELSE IF lineNumber > curr_line_offset
             THEN IF p.cursor + ahead <= Len(p.file_)
                  THEN Returned([p EXCEPT !.cursor = @ + ahead], 0)
                  \* getline met the end of the file: zero lines are appended
                  \* and the cursor is put lineNumber - 1 lines from the start
                  ELSE IF line_diff < 0 THEN Thrown(p, "ZeroFill")
                  ELSE IF lineNumber - 1 > Len(grown)
                       THEN Thrown([p EXCEPT !.file_ = grown,
                                             !.current_line_count_ = @ + line_diff,
                                             !.cursor = Len(grown)],
                                   "FailedSeek")
                  ELSE Returned([p EXCEPT !.file_ = grown,
                                          !.current_line_count_ = @ + line_diff,
                                          !.cursor = lineNumber - 1], 0)
        ELSE IF lineNumber <= Len(p.file_)
             THEN Returned([p EXCEPT !.cursor = lineNumber], 0)
        ELSE Thrown(p, "FailedSeek")

readNextInstruction(p) ==
    IF p.cursor >= Len(p.file_) THEN Thrown(p, "EndOfFile")
    ELSE Returned([p EXCEPT !.cursor = @ + 1, !.program_counter_ = @ + 4],
                  p.file_[p.cursor + 1])

readMemory(p, address) ==
    LET sought == seekToLine(p, address \div 4)
        q == sought.p
    IN  IF address % 4 # 0 THEN Thrown(p, "Unaligned")
        ELSE IF address >= MAX_LINE_COUNT * 4 THEN Thrown(p, "OutOfBounds")
        ELSE IF sought.error # "none" THEN sought
        \* the line read is empty at the end of the file and does not parse
        ELSE IF q.cursor >= Len(q.file_)
             THEN Thrown([q EXCEPT !.cursor = p.cursor], "FailedParse")
        ELSE Returned([q EXCEPT !.cursor = p.cursor], q.file_[q.cursor + 1])

writeMemory(p, address, value) ==
    LET sought == seekToLine(p, address \div 4)
        q == sought.p
        written == IF q.cursor < Len(q.file_)
                   THEN [q.file_ EXCEPT ![q.cursor + 1] = value]
                   ELSE Append(q.file_, value)
    IN  IF address % 4 # 0 THEN Thrown(p, "Unaligned")
        ELSE IF address > MAX_LINE_COUNT * 4 THEN Thrown(p, "OutOfBounds")
        ELSE IF sought.error # "none" THEN sought
        ELSE Returned([q EXCEPT !.file_ = written, !.cursor = p.cursor], 0)

jumpToInstruction(p, address) ==
    LET sought == seekToLine(p, address \div 4)
    IN  IF address % 4 # 0 THEN Thrown(p, "Unaligned")
        ELSE IF address > MAX_MEMORY_SIZE THEN Thrown(p, "OutOfBounds")
        ELSE IF sought.error # "none" THEN sought
        ELSE Returned([sought.p EXCEPT !.program_counter_ = address], 0)

(***************************************************************************)
(* Program images.  A program is ProgLen instruction words followed by a   *)
(* HALT word; the image is loaded at address 0.                            *)
(***************************************************************************)
EncodeR(op, rs, rt, rd) ==
    op * Pow2(26) + rs * Pow2(21) + rt * Pow2(16) + rd * Pow2(11)

EncodeI(op, rs, rt, imm) ==
    op * Pow2(26) + rs * Pow2(21) + rt * Pow2(16) + (imm % Half)

HaltWord == EncodeI(HALT, 0, 0, 0)

\* the address of the HALT word that closes the image
HaltAt == WORD_SIZE * ProgLen

InstrSet ==
    { EncodeI(ADDI, 0, 1, 8),       \* ADDI R1 R0 8
      EncodeR(SUB, 0, 1, 2),        \* SUB  R2 R0 R1
      EncodeI(ADDI, 1, 0, 5),       \* ADDI R0 R1 5
      EncodeI(LDW, 1, 2, HaltAt),   \* LDW  R2 R1 <HALT>
      EncodeI(STW, 1, 2, HaltAt),   \* STW  R2 R1 <HALT>
      EncodeI(BZ, 2, 0, 2),         \* BZ   R2 2
      EncodeI(BEQ, 1, 2, 2),        \* BEQ  R1 R2 2
      EncodeI(JR, 1, 0, 0) }        \* JR   R1

Bodies == { body \o <<HaltWord>> : body \in [1 .. ProgLen -> InstrSet] }

\* programs of the integration tests
SUBISeq ==
    << \H04010005,    \* ADDI R1 R0 5
       \H0402fffb,    \* ADDI R2 R0 -5
       \H0c230006,    \* SUBI R3 R1 6
       \H0c44fffa,    \* SUBI R4 R2 -6
       \H0c450003,    \* SUBI R5 R2 3
       \H0c260005,    \* SUBI R6 R1 5
       \H44000000 >>  \* HALT

BEQNotTaken ==
    << \H04010004,    \* ADDI R1 R0 4
       \H04020008,    \* ADDI R2 R0 8
       \H3c220002,    \* BEQ R1 R2 2
       \H04210006,    \* ADDI R1 R1 6
       \H0421000a,    \* ADDI R1 R1 10
       \H44000000 >>  \* HALT

JRUnconditionalBranch ==
    << \H00001000,    \* ADD R2 R0 R0
       \H04010010,    \* ADDI R1 R0 16
       \H40200000,    \* JR R1
       \H0402000a,    \* ADDI R2 R0 10
       \H0442000a,    \* ADDI R2 R2 10
       \H44000000 >>  \* HALT

rawCausedByLoad ==
    << \H04630064,    \* ADDI R3 R3 100
       \H3062003c,    \* LDW R2 R3 60
       \H0c49001e,    \* SUBI R9 R2 30
       \H44000000 >>  \* HALT

\* two longer programs over the registers of InstrSet: every kind of
\* dependency distance, without and with a load as the producer
Distances ==
    << EncodeI(ADDI, 0, 1, 8),      \* ADDI R1 R0 8
       EncodeR(SUB, 0, 1, 2),       \* SUB  R2 R0 R1
       EncodeI(ADDI, 0, 1, 8),      \* ADDI R1 R0 8
       EncodeI(BZ, 2, 0, 2),        \* BZ   R2 2
       EncodeI(BZ, 2, 0, 2),        \* BZ   R2 2
       HaltWord >>

LoadDistances ==
    << EncodeI(ADDI, 0, 1, 8),      \* ADDI R1 R0 8
       EncodeR(SUB, 0, 1, 2),       \* SUB  R2 R0 R1
       EncodeI(LDW, 1, 2, 16),      \* LDW  R2 R1 16
       EncodeI(BEQ, 1, 2, 2),       \* BEQ  R1 R2 2
       EncodeI(STW, 1, 2, 16),      \* STW  R2 R1 16
       HaltWord >>

\* programs whose load or store computes an address the memory refuses:
\* an unaligned load and a store beyond the 4 KiB, each three places
\* behind the instruction that sets its base register
MemoryFaults ==
    { << EncodeI(ADDI, 0, 1, 6),       \* ADDI R1 R0 6
         EncodeI(ADDI, 0, 2, 7),       \* ADDI R2 R0 7
         EncodeI(ADDI, 0, 3, 9),       \* ADDI R3 R0 9
         EncodeI(LDW, 1, 2, 0),        \* LDW  R2 R1 0
         EncodeI(ADDI, 0, 4, 3),       \* ADDI R4 R0 3
         HaltWord >>,
      << EncodeI(ADDI, 0, 1, 4100),    \* ADDI R1 R0 4100
         EncodeI(ADDI, 0, 2, 7),       \* ADDI R2 R0 7
         EncodeI(ADDI, 0, 3, 9),       \* ADDI R3 R0 9
         EncodeI(STW, 1, 2, 0),        \* STW  R2 R1 0
         EncodeI(ADDI, 0, 4, 3),       \* ADDI R4 R0 3
         HaltWord >> }

\* the opcodes that occur in no program above, R-type ones with rd # rt
Opcodes ==
    << EncodeI(MULI, 0, 1, 3),      \* MULI R1 R0 3
       EncodeI(ORI, 0, 2, 5),       \* ORI  R2 R0 5
       EncodeI(ANDI, 2, 3, 4),      \* ANDI R3 R2 4
       EncodeI(XORI, 0, 4, 9),      \* XORI R4 R0 9
       EncodeR(MUL, 1, 2, 5),       \* MUL  R5 R1 R2
       EncodeR(OR, 1, 2, 6),        \* OR   R6 R1 R2
       EncodeR(AND, 1, 2, 7),       \* AND  R7 R1 R2
       EncodeR(XOR, 1, 2, 8),       \* XOR  R8 R1 R2
       HaltWord >>

Scenarios ==
    { SUBISeq, BEQNotTaken, JRUnconditionalBranch, rawCausedByLoad,
      Distances, LoadDistances, Opcodes } \cup MemoryFaults

Programs == Bodies \cup Scenarios

(***************************************************************************)
(* State.  Two simulators are driven over the same program image, each     *)
(* with a register file, a Stats and a memory of its own: sim_no_forward   *)
(* (index FALSE) and sim_with_forward (index TRUE).  Every variable below  *)
(* is indexed by the simulator; "program" is the image both were given.    *)
(***************************************************************************)
VARIABLES
    program,            \* the loaded image
    pc,                 \* FunctionalSimulator::pc
    branch_taken,       \* FunctionalSimulator::branch_taken
    pipeline,           \* FunctionalSimulator::pipeline
    forward,            \* FunctionalSimulator::forward
    halt_pipeline,      \* FunctionalSimulator::halt_pipeline
    stall,              \* FunctionalSimulator::stall
    program_finished,   \* FunctionalSimulator::program_finished
    registers,          \* RegisterFile::registers
    memory_content_,    \* the words behind IMemoryParser
    instructionCounts,  \* Stats::instructionCounts
    stat_registers,     \* Stats::registers
    memoryAddresses,    \* Stats::memoryAddresses
    stalls,             \* Stats::stalls
    clockCycles,        \* Stats::clockCycles
    error,              \* the exception that left cycle(), "none" if none
    log,                \* history of the fetched instructions
    idle,               \* history: cycle() was called on the completed engine
    args,               \* the arguments of the constructor call
    constructed,        \* the constructor returned an engine
    loop,               \* where the run loop of main() stands
    parser,             \* a MemoryParser: file, cursor, program counter
    calls,              \* history of the calls made on the MemoryParser
    instruction_,       \* the word handed to the Instruction constructor
    decoded             \* the Instruction constructed from it, if any

vars == << program, pc, branch_taken, pipeline, forward, halt_pipeline, stall,
           program_finished, registers, memory_content_, instructionCounts,
           stat_registers, memoryAddresses, stalls, clockCycles, error, log,
           idle, args, constructed, loop, parser, calls, instruction_, decoded >>

Sims == BOOLEAN

\* the engine of simulator f with its collaborators, as one record
Sim(f) ==
    [ pc |-> pc[f], branch_taken |-> branch_taken[f], pipeline |-> pipeline[f],
      forward |-> forward[f], halt_pipeline |-> halt_pipeline[f],
      stall |-> stall[f], program_finished |-> program_finished[f],
      registers |-> registers[f], memory_content_ |-> memory_content_[f],
      instructionCounts |-> instructionCounts[f],
      stat_registers |-> stat_registers[f],
      memoryAddresses |-> memoryAddresses[f], stalls |-> stalls[f],
      clockCycles |-> clockCycles[f], error |-> error[f], log |-> log[f] ]

\* what the integration fixture hands to the constructor of simulator f
FixtureArgs(f) ==
    [rf |-> TRUE, st |-> TRUE, mem |-> TRUE,
     enable_forwarding |-> IF f THEN "true" ELSE "false"]

\* The constructor initialises pc, forward and the pipeline; halt_pipeline,
\* stall and program_finished have default member initialisers;
\* branch_taken has none and is read by the first cycle().
Init ==
    /\ program \in Programs
    /\ pc = [f \in Sims |-> 0]
    /\ branch_taken \in [Sims -> BOOLEAN]
    /\ pipeline = [f \in Sims |-> [stage \in Stages |-> EmptySlot]]
    /\ forward = [f \in Sims |-> f]
    /\ halt_pipeline = [f \in Sims |-> FALSE]
    /\ stall = [f \in Sims |-> FALSE]
    /\ program_finished = [f \in Sims |-> FALSE]
    /\ registers = [f \in Sims |-> RegisterFile]
    /\ memory_content_ = [f \in Sims |-> program]
    /\ instructionCounts = [f \in Sims |-> [c \in Categories |-> 0]]
    /\ stat_registers = [f \in Sims |-> {}]
    /\ memoryAddresses = [f \in Sims |-> {}]
    /\ stalls = [f \in Sims |-> 0]
    /\ clockCycles = [f \in Sims |-> 0]
    /\ error = [f \in Sims |-> "none"]
    /\ log = [f \in Sims |-> << >>]
    /\ idle = [f \in Sims |-> FALSE]
    /\ args = [f \in Sims |-> FixtureArgs(f)]
    /\ constructed = [f \in Sims |-> TRUE]
    /\ loop = [f \in Sims |-> "running"]
    /\ parser = MemoryParser(<< >>)
    /\ calls = << >>
    /\ instruction_ = 0
    /\ decoded = << >>

\* the embedder stops calling cycle(): completion, an exception, the budget
RunOver(f) ==
    \/ error[f] # "none"
    \/ clockCycles[f] >= MaxCycles
    \/ checkProgramCompletion(Sim(f))

\* sim->cycle() on simulator f: the engine and its collaborators are left
\* as the call leaves them
Call(f) ==
    /\ \E t \in {cycle(Sim(f))} :
           /\ pc' = [pc EXCEPT ![f] = t.pc]
           /\ branch_taken' = [branch_taken EXCEPT ![f] = t.branch_taken]
           /\ pipeline' = [pipeline EXCEPT ![f] = t.pipeline]
           /\ halt_pipeline' = [halt_pipeline EXCEPT ![f] = t.halt_pipeline]
           /\ stall' = [stall EXCEPT ![f] = t.stall]
           /\ program_finished' = [program_finished EXCEPT ![f] = t.program_finished]
           /\ registers' = [registers EXCEPT ![f] = t.registers]
           /\ memory_content_' = [memory_content_ EXCEPT ![f] = t.memory_content_]
           /\ instructionCounts' = [instructionCounts EXCEPT ![f] = t.instructionCounts]
           /\ stat_registers' = [stat_registers EXCEPT ![f] = t.stat_registers]
           /\ memoryAddresses' = [memoryAddresses EXCEPT ![f] = t.memoryAddresses]
           /\ stalls' = [stalls EXCEPT ![f] = t.stalls]
           /\ clockCycles' = [clockCycles EXCEPT ![f] = t.clockCycles]
           /\ error' = [error EXCEPT ![f] = t.error]
           /\ log' = [log EXCEPT ![f] = t.log]
    /\ idle' = [idle EXCEPT ![f] = @ \/ checkProgramCompletion(Sim(f))]
    /\ UNCHANGED << program, forward, args, constructed, loop, parser, calls,
                    instruction_, decoded >>

\* One call of cycle() on simulator f.  The embedder runs sim_no_forward
\* first and sim_with_forward after it; an exception ends a run.
Cycle(f) ==
    /\ error[f] = "none"
    /\ clockCycles[f] < MaxCycles
    /\ f => RunOver(FALSE)
    /\ Call(f)

Next == \E f \in Sims : Cycle(f)

Spec == Init /\ [][Next]_vars

(***************************************************************************)
(* Vocabulary of the properties.                                           *)
(***************************************************************************)
\* the run of simulator f ended with HALT latched and the pipeline drained
Completed(f) == error[f] = "none" /\ checkProgramCompletion(Sim(f))

\* the fetch ordinals of simulator f
Fetched(f) == 1 .. Len(log[f])

\* the HALT whose fetch latched halt_pipeline is the last word fetched
HaltFetched(f) ==
    /\ Len(log[f]) > 0
    /\ is_halt_instruction(log[f][Len(log[f])].word)

HaltAddress(f) == log[f][Len(log[f])].pc

(***************************************************************************)
(* C2.  isProgramFinished() is true exactly when a HALT has been latched   *)
(* and all five pipeline slots are empty.                                  *)
(***************************************************************************)
C2_FinishedIffDrained ==
    \A f \in Sims :
        error[f] = "none" =>
            (program_finished[f] <=> checkProgramCompletion(Sim(f)))

(***************************************************************************)
(* C3.  When a run finishes, getPC() equals the byte address of the HALT   *)
(* instruction, in both forwarding modes.                                  *)
(***************************************************************************)
C3_PcAtHalt ==
    \A f \in Sims :
        (Completed(f) /\ log[f][Len(log[f])].committed > 0)
            => pc[f] = HaltAddress(f)

(***************************************************************************)
(* C10.  Register 0 is hardwired: it reads as 0, an instruction whose      *)
(* destination is register 0 leaves the register file unchanged, and 0     *)
(* never appears in the modified-register set of the statistics.           *)
(***************************************************************************)
C10_ZeroNeverRecorded ==
    \A f \in Sims :
        /\ RegRead(registers[f], 0) = 0
        /\ registers[f][0] = 0
        /\ 0 \notin stat_registers[f]

(***************************************************************************)
(* The cycles an instruction was held in Decode: the cycle of its decode   *)
(* minus the cycle it was first looked at there.                           *)
(***************************************************************************)
Held(e) == e.decoded - e.entered

RECURSIVE SumHeld(_, _)
SumHeld(f, n) ==
    IF n = 0 THEN 0
    ELSE SumHeld(f, n - 1)
           + (IF log[f][n].decoded > 0 THEN Held(log[f][n]) ELSE 0)

\* the non-zero source registers of an instruction word
SourcesOf(word) ==
    LET instr == Instruction(word)
    IN  ({instr.rs_} \cup (IF needsRtValue(instr) THEN {instr.rt_} ELSE {}))
          \ {0}

\* the destination register of an instruction word, NoValue if it has none
DestOf(word) ==
    LET instr == Instruction(word)
    IN  IF ~isRegisterWriteInstruction(instr) THEN NoValue
        ELSE IF instr.hasRd THEN instr.rd_ ELSE instr.rt_

\* in the run of f, instruction k reads a register whose latest producer
\* is the instruction fetched exactly d places before it
ProducerAhead(f, k, d) ==
    /\ k - d \in Fetched(f)
    /\ log[f][k - d].flushed = 0
    /\ DestOf(log[f][k - d].word) \in SourcesOf(log[f][k].word)
    /\ \A q \in (k - d + 1) .. (k - 1) :
           /\ log[f][q].flushed = 0
           /\ DestOf(log[f][q].word) \notin SourcesOf(log[f][k].word)

(***************************************************************************)
(* C5.  With forwarding disabled, an instruction whose source is the       *)
(* non-zero destination of the instruction in Execute is held in Decode    *)
(* for exactly two stall cycles, one whose source is the destination only  *)
(* of the instruction in Memory for exactly one, and any other for none;   *)
(* the stall counter of a completed run is the sum of these.               *)
(***************************************************************************)
C5_NoForwardStalls ==
    /\ \A i \in Fetched(FALSE) :
           LET e == log[FALSE][i]
           IN  e.decoded > 0 =>
                   Held(e) = (IF e.hazEx THEN 2 ELSE IF e.hazMem THEN 1 ELSE 0)
    /\ Completed(FALSE) => stalls[FALSE] = SumHeld(FALSE, Len(log[FALSE]))

C5_Witness ==
    /\ error[FALSE] = "none"
    /\ \E i, j, k \in Fetched(FALSE) :
           /\ log[FALSE][i].hazEx /\ Held(log[FALSE][i]) = 2
           /\ ~log[FALSE][j].hazEx /\ log[FALSE][j].hazMem
           /\ Held(log[FALSE][j]) = 1
           /\ ProducerAhead(FALSE, k, 3)
           /\ log[FALSE][k].decoded > 0 /\ Held(log[FALSE][k]) = 0

(***************************************************************************)
(* C6.  With forwarding enabled, an instruction whose source is the        *)
(* non-zero destination of an LDW in Execute is held in Decode for exactly *)
(* one stall cycle and every other instruction for none; the stall counter *)
(* of a completed run is the sum of these.                                 *)
(***************************************************************************)
C6_ForwardStalls ==
    /\ \A i \in Fetched(TRUE) :
           LET e == log[TRUE][i]
           IN  e.decoded > 0 =>
                   Held(e) = (IF e.hazEx /\ e.exLoad THEN 1 ELSE 0)
    /\ Completed(TRUE) => stalls[TRUE] = SumHeld(TRUE, Len(log[TRUE]))

C6_Witness ==
    /\ error[TRUE] = "none"
    /\ \E i, j, k \in Fetched(TRUE) :
           /\ log[TRUE][i].hazEx /\ log[TRUE][i].exLoad
           /\ Held(log[TRUE][i]) = 1
           /\ log[TRUE][j].hazEx /\ ~log[TRUE][j].exLoad
           /\ log[TRUE][j].decoded > 0 /\ Held(log[TRUE][j]) = 0
           /\ ~log[TRUE][k].hazEx /\ log[TRUE][k].hazMem
           /\ log[TRUE][k].decoded > 0 /\ Held(log[TRUE][k]) = 0

(***************************************************************************)
(* C7.  The instructions in the Fetch and Decode slots when a taken BZ,    *)
(* BEQ or JR resolves never reach a later stage: they are never counted in *)
(* a category and never write a register or memory.  Each category count   *)
(* is the number of instructions of the category that passed Writeback.    *)
(***************************************************************************)
C7_FlushedNeverCommit ==
    \A f \in Sims :
        /\ \A i \in Fetched(f) :
               log[f][i].flushed > 0 =>
                   /\ log[f][i].executed = 0 /\ log[f][i].accessed = 0
                   /\ log[f][i].committed = 0
                   /\ ~log[f][i].wroteReg /\ ~log[f][i].stored
        /\ \A c \in Categories :
               instructionCounts[f][c] =
                   Cardinality({ i \in Fetched(f) :
                       /\ log[f][i].committed > 0
                       /\ get_instruction_category(get_opcode(log[f][i].word)) = c })

C7_Witness ==
    \E f \in Sims :
        /\ Completed(f)
        /\ \E b, i \in Fetched(f) :
               /\ log[f][b].taken
               /\ log[f][i].flushed = log[f][b].executed
               /\ isRegisterWriteInstruction(Instruction(log[f][i].word))
               /\ Instruction(log[f][i].word).rt_ # 0

(***************************************************************************)
(* C9.  The run with forwarding enabled never takes more cycles than the   *)
(* run of the same program with forwarding disabled.                       *)
(***************************************************************************)
C9_ForwardNoSlower ==
    (Completed(FALSE) /\ Completed(TRUE)) => clockCycles[TRUE] <= clockCycles[FALSE]

C9_Witness ==
    /\ Completed(FALSE) /\ Completed(TRUE)
    /\ stalls[FALSE] > stalls[TRUE] /\ stalls[TRUE] > 0
    /\ clockCycles[TRUE] < clockCycles[FALSE]

(***************************************************************************)
(* The program executed one instruction at a time, in program order, on a  *)
(* register file and a memory of its own.                                  *)
(***************************************************************************)
RECURSIVE RunSeq(_, _, _, _)
RunSeq(regs, mem, cur, fuel) ==
    LET word == MemValue(mem, cur)
        instr == Instruction(word)
        op == instr.opcode_
        rsv == RegRead(regs, instr.rs_)
        rtv == RegRead(regs, instr.rt_)
        result == ALU(op, rsv, rtv, instr.immediate_, cur, cur)
        stop(why) == [status |-> why, registers |-> regs, memory |-> mem]
    IN  IF fuel = 0 THEN stop("fuel")
        ELSE IF readInstructionCheck(cur) # "none" THEN stop("error")
        ELSE IF op \notin 0 .. HALT THEN stop("error")
        ELSE IF op = HALT THEN stop("halted")
        ELSE IF op = LDW
             THEN IF readMemoryCheck(result) # "none" THEN stop("error")
                  ELSE RunSeq(RegWrite(regs, instr.rt_, MemValue(mem, result)),
                              mem, Add32(cur, 4), fuel - 1)
        ELSE IF op = STW
             THEN IF writeMemoryCheck(result) # "none" THEN stop("error")
                  ELSE RunSeq(regs, MemStore(mem, result, rtv),
                              Add32(cur, 4), fuel - 1)
        ELSE IF op \in {BZ, BEQ, JR}
             THEN RunSeq(regs, mem,
                         IF BranchOutcome(op, rsv, rtv, FALSE) THEN result
                         ELSE Add32(cur, 4),
                         fuel - 1)
        ELSE RunSeq(RegWrite(regs, DestOf(word), result), mem,
                    Add32(cur, 4), fuel - 1)

Sequential == RunSeq(RegisterFile, program, 0, MaxCycles)

\* the run of f stored into an address that it fetched afterwards
StoresIntoFetched(f) ==
    \E i, j \in Fetched(f) :
        i < j /\ log[f][i].stored /\ log[f][j].pc = log[f][i].storeAddr

\* the run of f fetched a HALT behind a branch that was then taken
HaltBehindTakenBranch(f) ==
    \E i \in Fetched(f) :
        is_halt_instruction(log[f][i].word) /\ log[f][i].flushed > 0

Plain(f) == Completed(f) /\ ~StoresIntoFetched(f) /\ ~HaltBehindTakenBranch(f)

(***************************************************************************)
(* C1.  For a run that completes, never stores into an address it fetches  *)
(* afterwards and fetches no HALT behind a taken branch, the register file *)
(* and the data memory at completion are those of the sequential execution *)
(* of the program, in both forwarding modes; so the final registers of the *)
(* two modes are the same.                                                 *)
(***************************************************************************)
C1_SequentialEquivalence ==
    /\ \A f \in Sims :
           Plain(f) =>
               /\ Sequential.status = "halted"
               /\ registers[f] = Sequential.registers
               /\ memory_content_[f] = Sequential.memory
    /\ (Plain(FALSE) /\ Plain(TRUE)) => registers[TRUE] = registers[FALSE]

C1_Witness ==
    /\ Plain(FALSE) /\ Plain(TRUE)
    /\ stalls[FALSE] > stalls[TRUE]
    /\ registers[TRUE][1] # 0 /\ registers[TRUE][2] # 0
    /\ memory_content_[TRUE] # program
    /\ \E i \in Fetched(TRUE) : log[TRUE][i].accessed > 0
                                  /\ get_opcode(log[TRUE][i].word) = LDW

\* the stages behind Fetch, and the two stall cycles a HALT can wait in Fetch
DrainBound == (NUM_STAGES - 1) + 2

HaltFetchCycle(f) == log[f][Len(log[f])].fetched

C8_TargetFetchedNextCycle ==
    \A f \in Sims :
        \A b \in Fetched(f) :
            (/\ error[f] = "none"
             /\ log[f][b].taken
             /\ clockCycles[f] > log[f][b].executed)
                => \E j \in Fetched(f) :
                       /\ log[f][j].fetched = log[f][b].executed + 1
                       /\ log[f][j].pc = log[f][b].target

(***************************************************************************)
(* Vocabulary of the step properties: what one call of cycle() on          *)
(* simulator f did, read off the states before and after it.               *)
(***************************************************************************)
\* the call was not the early return of a completed engine
Ran(f) == clockCycles'[f] # clockCycles[f]

\* the call reached its last step, advancePipeline
Advanced(f) == Ran(f) /\ error'[f] = "none"

\* the same instruction occupies (or the same bubble is in) both slots
SameInstruction(a, b) ==
    /\ a.valid = b.valid
    /\ a.valid => (a.id = b.id /\ a.instruction = b.instruction /\ a.pc = b.pc)

(***************************************************************************)
(* C11.  In a cycle whose advance step runs with stall set, the Decode     *)
(* slot keeps its instruction, the Fetch slot keeps its instruction (the   *)
(* one it held, or the one fetched in this cycle), Execute is left empty,  *)
(* the former Execute and Memory instructions are in Memory and Writeback, *)
(* and the stall counter is one higher; in every other cycle the stall     *)
(* counter is unchanged.                                                   *)
(***************************************************************************)
StallStep(f) ==
    /\ pipeline[f][DECODE].valid
    /\ pipeline'[f][DECODE] = pipeline[f][DECODE]
    /\ IF pipeline[f][FETCH].valid
       THEN pipeline'[f][FETCH] = pipeline[f][FETCH]
       ELSE \/ ~pipeline'[f][FETCH].valid /\ halt_pipeline[f]
            \/ /\ pipeline'[f][FETCH].valid
               /\ pipeline'[f][FETCH].id = Len(log'[f])
               /\ Len(log'[f]) = Len(log[f]) + 1
    /\ pipeline'[f][EXECUTE] = EmptySlot
    /\ SameInstruction(pipeline'[f][MEMORY], pipeline[f][EXECUTE])
    /\ SameInstruction(pipeline'[f][WRITEBACK], pipeline[f][MEMORY])
    /\ stalls'[f] = stalls[f] + 1

C11_StallStep ==
    [][\A f \in Sims :
           IF Advanced(f) /\ stall'[f] THEN StallStep(f)
           ELSE stalls'[f] = stalls[f]]_vars

C11_Witness ==
    \E f \in Sims :
        /\ error[f] = "none" /\ stall[f] /\ stalls[f] > 0
        /\ pipeline[f][FETCH].valid /\ pipeline[f][DECODE].valid
        /\ ~pipeline[f][EXECUTE].valid
        /\ pipeline[f][MEMORY].valid /\ pipeline[f][WRITEBACK].valid

\* the instructions of category c that simulator f has decoded so far
DecodedOf(f, c) ==
    { i \in Fetched(f) :
        /\ log[f][i].decoded > 0
        /\ get_instruction_category(get_opcode(log[f][i].word)) = c }

(***************************************************************************)
(* C12.  The category counter of an instruction is incremented in the      *)
(* cycle of its decode: at every moment each category count is the number  *)
(* of instructions of the category decoded so far, those still in Execute, *)
(* Memory or Writeback included, and an instruction flushed before its     *)
(* decode is not in it.                                                    *)
(***************************************************************************)
C12_CountedAtDecode ==
    \A f \in Sims :
        error[f] = "none" =>
            \A c \in Categories :
                instructionCounts[f][c] = Cardinality(DecodedOf(f, c))

\* the instructions of category c that went through the pipeline of f
\* without being flushed
PassedOf(f, c) ==
    { i \in Fetched(f) :
        /\ log[f][i].flushed = 0
        /\ get_instruction_category(get_opcode(log[f][i].word)) = c }

(***************************************************************************)
(* C13.  When a run finishes, each category count is the number of         *)
(* instructions of the category that were fetched and not flushed (a HALT  *)
(* is control flow), each counted once however long it was held in Decode, *)
(* and totalInstructions() is the sum of the four counts, the number of    *)
(* all such instructions; flushed instructions are in none of the counts.  *)
(***************************************************************************)
C13_FinalCounts ==
    \A f \in Sims :
        Completed(f) =>
            /\ \A c \in Categories :
                   instructionCounts[f][c] = Cardinality(PassedOf(f, c))
            /\ totalInstructions(Sim(f)) =
                   Cardinality({ i \in Fetched(f) : log[f][i].flushed = 0 })
            /\ get_instruction_category(HALT) = "CONTROL_FLOW"

C13_Witness ==
    \E f \in Sims :
        /\ Completed(f)
        /\ log[f][Len(log[f])].committed > 0
        /\ instructionCounts[f]["CONTROL_FLOW"] = 2
        /\ instructionCounts[f]["ARITHMETIC"] >= 2
        /\ \E i, j \in Fetched(f) :
               /\ log[f][i].flushed > 0
               /\ log[f][j].committed > 0 /\ Held(log[f][j]) = 2

(***************************************************************************)
(* C14.  A call of cycle() on an engine with HALT latched and all five     *)
(* slots empty changes nothing: pc, the slots, the flags, the register     *)
(* file, the memory and every counter of the statistics, the clock         *)
(* included, are the same after any number of such calls.                  *)
(***************************************************************************)
C14_FinishedNoOp ==
    [][\A f \in Sims : Completed(f) => Sim(f)' = Sim(f)]_vars

C14_Witness ==
    \E f \in Sims :
        /\ idle[f] /\ Completed(f)
        /\ log[f][Len(log[f])].committed > 0
        /\ clockCycles[f] = Len(program) + (NUM_STAGES - 1) + stalls[f]
        /\ stalls[f] > 0 /\ registers[f] # RegisterFile

\* the call of cycle() on f took the branch arm, which sets pc to the target
BranchArm(f) ==
    \E b \in Fetched(f) :
        /\ log'[f][b].taken
        /\ log'[f][b].executed = clockCycles'[f]
        /\ pc'[f] = log'[f][b].target

\* in a call of cycle() on f that starts with the HALT latched, Fetch reads
\* no word and does not move pc
FetchIdle(f) ==
    /\ Len(log'[f]) = Len(log[f])
    /\ pc'[f] = pc[f] \/ BranchArm(f)

(***************************************************************************)
(* C17 as stated.  Once a HALT has been fetched, in every later cycle      *)
(* Fetch reads no instruction word, the Fetch slot is empty and pc is not  *)
(* advanced by Fetch.                                                      *)
(***************************************************************************)
C17_FetchSlotEmptyAfterHalt ==
    [][\A f \in Sims :
           (halt_pipeline[f] /\ Advanced(f)) =>
               (FetchIdle(f) /\ ~pipeline'[f][FETCH].valid)]_vars

(***************************************************************************)
(* C17 amended.  Once a HALT has been fetched, in every later cycle Fetch  *)
(* reads no instruction word, puts nothing into the Fetch slot and does    *)
(* not advance pc: the Fetch slot is empty, or still holds that HALT,      *)
(* kept there by a stall, and it is empty for good once the HALT left it.  *)
(***************************************************************************)
C17_FetchIdleAfterHalt ==
    [][\A f \in Sims :
           (halt_pipeline[f] /\ Advanced(f)) =>
               /\ FetchIdle(f)
               /\ \/ ~pipeline'[f][FETCH].valid
                  \/ /\ stall'[f]
                     /\ pipeline'[f][FETCH] = pipeline[f][FETCH]
                     /\ is_halt_instruction(pipeline[f][FETCH].instruction)
                     /\ pipeline[f][FETCH].id = Len(log[f])]_vars

C17_Witness ==
    \E f \in Sims :
        /\ error[f] = "none" /\ halt_pipeline[f]
        /\ clockCycles[f] > HaltFetchCycle(f)
        /\ stall[f]
        /\ pipeline[f][FETCH].valid
        /\ is_halt_instruction(pipeline[f][FETCH].instruction)
        /\ pc[f] = HaltAddress(f) + WORD_SIZE

(***************************************************************************)
(* C20.  Whenever the engine is finished (HALT latched, pipeline drained), *)
(* all five slots are empty and pc is greater than the address of the      *)
(* HALT instruction.                                                       *)
(***************************************************************************)
C20_FinishedPastHalt ==
    \A f \in Sims :
        Completed(f) =>
            /\ \A stage \in Stages : isStageEmpty(Sim(f), stage)
            /\ pc[f] > HaltAddress(f)

(***************************************************************************)
(* The constructor.  A pointer argument is TRUE when it is not null;       *)
(* enable_forwarding is "absent" when the caller leaves it to its default. *)
(* raw is the storage the engine is built in: the constructor and the      *)
(* default member initialisers overwrite every field but branch_taken.     *)
(***************************************************************************)
\* a variant of the constructor without the check of the memory pointer
FunctionalSimulatorUnchecked(raw, rf, st, mem, enable_forwarding) ==
    IF ~rf \/ ~st THEN Raise(raw, "NullDependency")
    ELSE [raw EXCEPT !.pc = 0,
                     !.forward = (enable_forwarding = "true"),
                     !.pipeline = [stage \in Stages |-> EmptySlot],
                     !.halt_pipeline = FALSE,
                     !.stall = FALSE,
                     !.program_finished = FALSE]

FunctionalSimulator(raw, rf, st, mem, enable_forwarding) ==
    IF ~rf THEN Raise(raw, "NullDependency")
    ELSE IF ~st THEN Raise(raw, "NullDependency")
    ELSE IF ~mem THEN Raise(raw, "NullDependency")
    ELSE [raw EXCEPT !.pc = 0,
                     !.forward = (enable_forwarding = "true"),
                     !.pipeline = [stage \in Stages |-> EmptySlot],
                     !.halt_pipeline = FALSE,
                     !.stall = FALSE,
                     !.program_finished = FALSE]

ArgSet ==
    [rf : BOOLEAN, st : BOOLEAN, mem : BOOLEAN,
     enable_forwarding : {"absent", "false", "true"}]

\* The storage before construction is either all clear or has every flag
\* set, a non-zero pc and an occupied slot.
InitCtor ==
    /\ program = SUBISeq
    /\ \E raw \in [Sims -> BOOLEAN] :
           /\ pc = [f \in Sims |-> IF raw[f] THEN WORD_SIZE ELSE 0]
           /\ branch_taken = raw
           /\ forward = raw
           /\ halt_pipeline = raw
           /\ stall = raw
           /\ program_finished = raw
           /\ pipeline = [f \in Sims |->
                  [stage \in Stages |->
                      IF raw[f] /\ stage = EXECUTE
                      THEN PipelineStageData(HaltWord, 0, 0) ELSE EmptySlot]]
    /\ registers = [f \in Sims |-> RegisterFile]
    /\ memory_content_ = [f \in Sims |-> program]
    /\ instructionCounts = [f \in Sims |-> [c \in Categories |-> 0]]
    /\ stat_registers = [f \in Sims |-> {}]
    /\ memoryAddresses = [f \in Sims |-> {}]
    /\ stalls = [f \in Sims |-> 0]
    /\ clockCycles = [f \in Sims |-> 0]
    /\ error = [f \in Sims |-> "none"]
    /\ log = [f \in Sims |-> << >>]
    /\ idle = [f \in Sims |-> FALSE]
    /\ args \in [Sims -> ArgSet]
    /\ constructed = [f \in Sims |-> FALSE]
    /\ loop = [f \in Sims |-> "running"]
    /\ parser = MemoryParser(<< >>)
    /\ calls = << >>
    /\ instruction_ = 0
    /\ decoded = << >>

\* new FunctionalSimulator(rf, st, mem [, enable_forwarding]) into slot f
Construct(f) ==
    /\ ~constructed[f] /\ error[f] = "none"
    /\ \E t \in {FunctionalSimulator(Sim(f), args[f].rf, args[f].st,
                                     args[f].mem, args[f].enable_forwarding)} :
           /\ pc' = [pc EXCEPT ![f] = t.pc]
           /\ forward' = [forward EXCEPT ![f] = t.forward]
           /\ branch_taken' = [branch_taken EXCEPT ![f] = t.branch_taken]
           /\ pipeline' = [pipeline EXCEPT ![f] = t.pipeline]
           /\ halt_pipeline' = [halt_pipeline EXCEPT ![f] = t.halt_pipeline]
           /\ stall' = [stall EXCEPT ![f] = t.stall]
           /\ program_finished' = [program_finished EXCEPT ![f] = t.program_finished]
           /\ error' = [error EXCEPT ![f] = t.error]
           /\ constructed' = [constructed EXCEPT ![f] = (t.error = "none")]
    /\ UNCHANGED << program, registers, memory_content_, instructionCounts,
                    stat_registers, memoryAddresses, stalls, clockCycles, log,
                    idle, args, loop, parser, calls, instruction_, decoded >>

NextCtor == \E f \in Sims : Construct(f)

SpecCtor == InitCtor /\ [][NextCtor]_vars

\* the constructor was called for simulator f
Attempted(f) == constructed[f] \/ error[f] # "none"

(***************************************************************************)
(* C18.  A constructor call with a null register file, statistics or       *)
(* memory pointer fails with NullDependency and yields no engine; any      *)
(* other call yields an engine with pc 0, all five slots empty, the halt,  *)
(* finished and stall flags clear, and forwarding enabled exactly when the *)
(* caller asked for it.                                                    *)
(***************************************************************************)
C18_Construction ==
    \A f \in Sims :
        Attempted(f) =>
            IF ~args[f].rf \/ ~args[f].st \/ ~args[f].mem
            THEN error[f] = "NullDependency" /\ ~constructed[f]
            ELSE /\ constructed[f] /\ error[f] = "none"
                 /\ pc[f] = 0
                 /\ \A stage \in Stages : isStageEmpty(Sim(f), stage)
                 /\ ~halt_pipeline[f] /\ ~program_finished[f] /\ ~stall[f]
                 /\ forward[f] = (args[f].enable_forwarding = "true")

C18_Witness ==
    /\ error[FALSE] = "NullDependency"
    /\ args[FALSE].rf /\ args[FALSE].st /\ ~args[FALSE].mem
    /\ constructed[TRUE] /\ ~forward[TRUE]
    /\ args[TRUE].enable_forwarding = "absent"

(***************************************************************************)
(* main(): the run loop.  Each forwarding mode is a run of main() of its   *)
(* own; the model lets the run with forwarding start when the run without  *)
(* has left its loop or its engine has completed.  The budget              *)
(* timeout_cycles_ is scaled down to MaxCycles.                            *)
(***************************************************************************)
timeout_cycles_ == MaxCycles

\* the engine of simulator f becomes the record t
Apply(f, t) ==
    /\ pc' = [pc EXCEPT ![f] = t.pc]
    /\ branch_taken' = [branch_taken EXCEPT ![f] = t.branch_taken]
    /\ pipeline' = [pipeline EXCEPT ![f] = t.pipeline]
    /\ halt_pipeline' = [halt_pipeline EXCEPT ![f] = t.halt_pipeline]
    /\ stall' = [stall EXCEPT ![f] = t.stall]
    /\ program_finished' = [program_finished EXCEPT ![f] = t.program_finished]
    /\ registers' = [registers EXCEPT ![f] = t.registers]
    /\ memory_content_' = [memory_content_ EXCEPT ![f] = t.memory_content_]
    /\ instructionCounts' = [instructionCounts EXCEPT ![f] = t.instructionCounts]
    /\ stat_registers' = [stat_registers EXCEPT ![f] = t.stat_registers]
    /\ memoryAddresses' = [memoryAddresses EXCEPT ![f] = t.memoryAddresses]
    /\ stalls' = [stalls EXCEPT ![f] = t.stalls]
    /\ clockCycles' = [clockCycles EXCEPT ![f] = t.clockCycles]
    /\ error' = [error EXCEPT ![f] = t.error]
    /\ log' = [log EXCEPT ![f] = t.log]

\* One pass of while (!fs->isProgramFinished()) { fs->cycle(); if (...) break; }
\* An exception of cycle() is not caught anywhere and ends the process.
MainLoop(f) ==
    /\ loop[f] = "running"
    /\ f => (loop[FALSE] # "running" \/ checkProgramCompletion(Sim(FALSE)))
    /\ IF program_finished[f]
       THEN /\ loop' = [loop EXCEPT ![f] = "exited"]
            /\ UNCHANGED << pc, branch_taken, pipeline, halt_pipeline, stall,
                            program_finished, registers, memory_content_,
                            instructionCounts, stat_registers, memoryAddresses,
                            stalls, clockCycles, error, log, idle >>
       ELSE \E t \in {cycle(Sim(f))} :
                /\ Apply(f, t)
                /\ idle' = [idle EXCEPT ![f] = @ \/ checkProgramCompletion(Sim(f))]
                /\ loop' = [loop EXCEPT ![f] =
                               IF t.error # "none" THEN "terminated"
                               ELSE IF t.clockCycles >= timeout_cycles_
                                    THEN "budget"
                               ELSE "running"]
    /\ UNCHANGED << program, forward, args, constructed, parser, calls,
                    instruction_, decoded >>

NextMain == \E f \in Sims : MainLoop(f)

SpecMain == Init /\ [][NextMain]_vars

(***************************************************************************)
(* C19.  The run loop of main() terminates for every program: it is left   *)
(* when the engine has completed, and otherwise when the cycle budget is   *)
(* reached.  On finite runs: the loop is never still running after a pass  *)
(* that called cycle() on the completed engine (that pass changed nothing, *)
(* so the same pass would repeat for ever), nor with the budget used up.   *)
(***************************************************************************)
C19_LoopTerminates ==
    \A f \in Sims :
        loop[f] = "running" =>
            /\ ~idle[f]
            /\ clockCycles[f] < timeout_cycles_

(***************************************************************************)
(* A MemoryParser on its own, as the parser tests drive it: up to MaxCalls *)
(* calls on a parser opened on a small file.                               *)
(***************************************************************************)
\* the test file: a few instruction words, one per line
Files ==
    { << \H040103E8, \H040204B0 >>,
      << \H040103E8, \H040204B0, \H00003800, \H00004000 >> }

\* aligned and unaligned addresses inside the file, past its end, at the
\* last word of the memory, at its size and beyond
Addresses == { 0, 4, 6, 12, 28, 4092, 4095, 4096, 4100 }

\* 0xAABBCCDD and 0x12345678
Values == { -1430532899, \H12345678 }

\* no simulator runs: the engine state stays as constructed over an idle
\* program, and the parser is opened on one of the files
InitParser ==
    /\ program = SUBISeq
    /\ pc = [f \in Sims |-> 0]
    /\ branch_taken = [f \in Sims |-> FALSE]
    /\ pipeline = [f \in Sims |-> [stage \in Stages |-> EmptySlot]]
    /\ forward = [f \in Sims |-> f]
    /\ halt_pipeline = [f \in Sims |-> FALSE]
    /\ stall = [f \in Sims |-> FALSE]
    /\ program_finished = [f \in Sims |-> FALSE]
    /\ registers = [f \in Sims |-> RegisterFile]
    /\ memory_content_ = [f \in Sims |-> program]
    /\ instructionCounts = [f \in Sims |-> [c \in Categories |-> 0]]
    /\ stat_registers = [f \in Sims |-> {}]
    /\ memoryAddresses = [f \in Sims |-> {}]
    /\ stalls = [f \in Sims |-> 0]
    /\ clockCycles = [f \in Sims |-> 0]
    /\ error = [f \in Sims |-> "none"]
    /\ log = [f \in Sims |-> << >>]
    /\ idle = [f \in Sims |-> FALSE]
    /\ args = [f \in Sims |-> FixtureArgs(f)]
    /\ constructed = [f \in Sims |-> TRUE]
    /\ loop = [f \in Sims |-> "running"]
    /\ parser \in { MemoryParser(lines) : lines \in Files }
    /\ calls = << >>
    /\ instruction_ = 0
    /\ decoded = << >>

\* the call, the parser before and after it, and its outcome
Called(op, address, value, r) ==
    /\ parser' = r.p
    /\ calls' = Append(calls, [ op |-> op, address |-> address, value |-> value,
                                error |-> r.error, returned |-> r.value,
                                before |-> parser, after |-> r.p ])
    /\ UNCHANGED << program, pc, branch_taken, pipeline, forward, halt_pipeline,
                    stall, program_finished, registers, memory_content_,
                    instructionCounts, stat_registers, memoryAddresses, stalls,
                    clockCycles, error, log, idle, args, constructed, loop,
                    instruction_, decoded >>

ReadNextInstruction ==
    /\ Len(calls) < MaxCalls
    /\ Called("next", 0, 0, readNextInstruction(parser))

ReadMemory ==
    \E address \in Addresses :
        /\ Len(calls) < MaxCalls
        /\ Called("read", address, 0, readMemory(parser, address))

WriteMemory ==
    \E address \in Addresses, value \in Values :
        /\ Len(calls) < MaxCalls
        /\ Called("write", address, value, writeMemory(parser, address, value))

JumpToInstruction ==
    \E address \in Addresses :
        /\ Len(calls) < MaxCalls
        /\ Called("jump", address, 0, jumpToInstruction(parser, address))

NextParser ==
    \/ ReadNextInstruction
    \/ ReadMemory
    \/ WriteMemory
    \/ JumpToInstruction

SpecParser == InitParser /\ [][NextParser]_vars

(***************************************************************************)
(* C15.  Every read or write at an address that is no multiple of 4 fails  *)
(* with Unaligned, every read or write at an address of 4096 or above      *)
(* fails with OutOfBounds, and in both cases the memory is unchanged.      *)
(***************************************************************************)
C15_AddressChecks ==
    \A i \in 1 .. Len(calls) :
        LET c == calls[i]
        IN  c.op \in {"read", "write"} =>
                /\ c.address % 4 # 0 =>
                       c.error = "Unaligned" /\ c.after.file_ = c.before.file_
                /\ c.address >= MAX_MEMORY_SIZE =>
                       /\ c.error \in {"Unaligned", "OutOfBounds"}
                       /\ c.after.file_ = c.before.file_

(***************************************************************************)
(* C16.  For every aligned address below 4096 and every value, writing the *)
(* value to the address and then reading the address yields the value, the *)
(* contents of every other address are unchanged, and the parser's program *)
(* counter is unchanged by the write and the read.                         *)
(***************************************************************************)
\* the word of a line of the file; a line the file does not hold yet is zero
Word(lines, line) == IF line < Len(lines) THEN lines[line + 1] ELSE 0

C16_WriteThenRead ==
    \A i \in 1 .. Len(calls) - 1 :
        LET w == calls[i]
            r == calls[i + 1]
        IN  ( /\ w.op = "write" /\ w.address % 4 = 0
              /\ w.address < MAX_MEMORY_SIZE
              /\ r.op = "read" /\ r.address = w.address ) =>
                /\ w.error = "none"
                /\ r.error = "none"
                /\ r.returned = w.value
                /\ \A line \in 0 .. MAX_LINE_COUNT - 1 :
                       line # w.address \div 4 =>
                           Word(r.after.file_, line) = Word(w.before.file_, line)
                /\ r.after.program_counter_ = w.before.program_counter_

(***************************************************************************)
(* The Instruction constructor on its own: a word is handed to it and the  *)
(* decoded fields are kept.                                                *)
(***************************************************************************)
\* opcode, rs, rt and the low half-word laid out at their bit positions
RawWord(op, rs, rt, low) == Join32(op * 1024 + rs * 32 + rt, low)

\* every valid opcode and two invalid ones; registers and half-words at
\* the ends of their ranges, with and without the bits below rd
DecoderWords ==
    { RawWord(op, rs, rt, low) :
        op \in (0 .. HALT) \cup {HALT + 1, 63},
        rs \in {0, 1, 31},
        rt \in {0, 31},
        low \in {0, 1, 2047, 2048, 32767, 32768, 63488, 65535} }

\* the engine is left as constructed; a word is chosen for the decoder
InitDecoder ==
    /\ program = SUBISeq
    /\ pc = [f \in Sims |-> 0]
    /\ branch_taken = [f \in Sims |-> FALSE]
    /\ pipeline = [f \in Sims |-> [stage \in Stages |-> EmptySlot]]
    /\ forward = [f \in Sims |-> f]
    /\ halt_pipeline = [f \in Sims |-> FALSE]
    /\ stall = [f \in Sims |-> FALSE]
    /\ program_finished = [f \in Sims |-> FALSE]
    /\ registers = [f \in Sims |-> RegisterFile]
    /\ memory_content_ = [f \in Sims |-> program]
    /\ instructionCounts = [f \in Sims |-> [c \in Categories |-> 0]]
    /\ stat_registers = [f \in Sims |-> {}]
    /\ memoryAddresses = [f \in Sims |-> {}]
    /\ stalls = [f \in Sims |-> 0]
    /\ clockCycles = [f \in Sims |-> 0]
    /\ error = [f \in Sims |-> "none"]
    /\ log = [f \in Sims |-> << >>]
    /\ idle = [f \in Sims |-> FALSE]
    /\ args = [f \in Sims |-> FixtureArgs(f)]
    /\ constructed = [f \in Sims |-> TRUE]
    /\ loop = [f \in Sims |-> "running"]
    /\ parser = MemoryParser(<< >>)
    /\ calls = << >>
    /\ instruction_ \in DecoderWords
    /\ decoded = << >>

\* Instruction instr(word)
Decode ==
    /\ decoded = << >>
    /\ decoded' = << Instruction(instruction_) >>
    /\ UNCHANGED << program, pc, branch_taken, pipeline, forward, halt_pipeline,
                    stall, program_finished, registers, memory_content_,
                    instructionCounts, stat_registers, memoryAddresses, stalls,
                    clockCycles, error, log, idle, args, constructed, loop,
                    parser, calls, instruction_ >>

NextDecoder == Decode

SpecDecoder == InitDecoder /\ [][NextDecoder]_vars

\* the decoded fields of a valid opcode put back at their bit positions
Encode(instr) ==
    IF instr.instruction_type_ = "R_TYPE"
    THEN EncodeR(instr.opcode_, instr.rs_, instr.rt_, instr.rd_)
    ELSE EncodeI(instr.opcode_, instr.rs_, instr.rt_, instr.immediate_)

(***************************************************************************)
(* C21 as stated.  For every word with a valid opcode, decoding it and     *)
(* putting opcode, rs, rt and rd or the immediate back at their bit        *)
(* positions yields the word.                                              *)
(***************************************************************************)
C21_RoundTrip ==
    \A i \in 1 .. Len(decoded) :
        decoded[i].opcode_ \in 0 .. HALT => Encode(decoded[i]) = instruction_

(***************************************************************************)
(* C21.  Decoding and re-encoding yields the word for every I-type word    *)
(* with a valid opcode, and for an R-type word exactly when its unused     *)
(* bits 10..0 are zero: in general it yields the word with those bits      *)
(* cleared.                                                                *)
(***************************************************************************)
C21_RoundTripFields ==
    \A i \in 1 .. Len(decoded) :
        LET instr == decoded[i]
        IN  instr.opcode_ \in 0 .. HALT =>
                IF instr.instruction_type_ = "R_TYPE"
                THEN /\ Encode(instr) = instruction_ - extract_bits(instruction_, 0, 11)
                     /\ Encode(instr) = instruction_ <=> extract_bits(instruction_, 0, 11) = 0
                ELSE Encode(instr) = instruction_

C21_Witness ==
    /\ Len(decoded) = 1
    /\ decoded[1].opcode_ = LDW
    /\ decoded[1].immediate_ < -1
    /\ decoded[1].rs_ = 31 /\ decoded[1].rt_ = 31

(***************************************************************************)
(* C22.  When the LDW or STW in the Memory stage has an effective address  *)
(* that is unaligned or out of range, that call of cycle() fails with the  *)
(* memory error.  The clock increment and the Writeback commit of the call *)
(* remain; its Execute, Decode, Fetch and advance steps do not happen.     *)
(***************************************************************************)
MemoryErrors == {"Unaligned", "OutOfBounds", "LineNumberExceeds"}

\* what the memory interface answers to the access of the slot in Memory
MemoryFault(f) ==
    LET mem_data == pipeline[f][MEMORY]
        opcode == Instr(mem_data).opcode_
    IN  IF ~mem_data.valid THEN "none"
        ELSE IF opcode = LDW THEN readMemoryCheck(mem_data.alu_result)
        ELSE IF opcode = STW THEN writeMemoryCheck(mem_data.alu_result)
        ELSE "none"

\* the commit of the slot in Writeback was made by the call
Committed(f) ==
    LET wb_data == pipeline[f][WRITEBACK]
        opcode == Instr(wb_data).opcode_
        category == get_instruction_category(opcode)
        value == IF opcode = LDW THEN wb_data.memory_data ELSE wb_data.alu_result
    IN  IF ~wb_data.valid
        THEN /\ registers'[f] = registers[f]
             /\ instructionCounts'[f] = instructionCounts[f]
        ELSE /\ instructionCounts'[f] =
                    [instructionCounts[f] EXCEPT ![category] = @ + 1]
             /\ registers'[f] =
                    IF wb_data.dest_reg \in 1 .. (NUM_REGISTERS - 1)
                    THEN [registers[f] EXCEPT ![wb_data.dest_reg] = value]
                    ELSE registers[f]

C22_MemoryErrorStopsCall ==
    [][\A f \in Sims :
          (Ran(f) /\ MemoryFault(f) # "none") =>
              /\ error'[f] = MemoryFault(f)
              /\ clockCycles'[f] = clockCycles[f] + 1
              /\ Committed(f)
              /\ pipeline'[f] = pipeline[f]
              /\ pc'[f] = pc[f]
              /\ branch_taken'[f] = branch_taken[f]
              /\ stall'[f] = stall[f]
              /\ halt_pipeline'[f] = halt_pipeline[f]
              /\ stalls'[f] = stalls[f]
              /\ memory_content_'[f] = memory_content_[f]
              /\ Len(log'[f]) = Len(log[f])]_vars

C22_Witness ==
    \E f \in Sims :
        /\ error[f] \in MemoryErrors
        /\ pipeline[f][MEMORY].valid
        /\ pipeline[f][EXECUTE].valid /\ pipeline[f][DECODE].valid
        /\ \E i \in Fetched(f) :
               log[f][i].committed = clockCycles[f] /\ log[f][i].wroteReg

(***************************************************************************)
(* C23.  A HALT that was fetched behind a branch and flushed because the   *)
(* branch was taken does not end the program: in the cycle after the flush *)
(* the instruction at the branch target is fetched, and the run does not   *)
(* complete on the flushed HALT.                                           *)
(***************************************************************************)
C23_FlushedHaltResumes ==
    \A f \in Sims :
        \A b, i \in Fetched(f) :
            ( /\ error[f] = "none"
              /\ log[f][b].taken
              /\ is_halt_instruction(log[f][i].word)
              /\ log[f][i].flushed = log[f][b].executed
              /\ clockCycles[f] > log[f][i].flushed ) =>
                /\ Len(log[f]) > i
                /\ log[f][i + 1].fetched = log[f][i].flushed + 1
                /\ log[f][i + 1].pc = log[f][b].target

(***************************************************************************)
(* The engine taken in mid-flight, as the stage tests set it up: three     *)
(* instructions are in the Memory, Execute and Decode slots (or a bubble   *)
(* is), and cycle() is called once on each simulator.                      *)
(***************************************************************************)
\* the register values of the stage fixtures: $1 = 100 .. $5 = 500
StageRegisters ==
    [r \in 0 .. (NUM_REGISTERS - 1) |-> IF r \in 1 .. 5 THEN 100 * r ELSE 0]

\* the slot of an instruction that has passed Decode with these operands
DecodedSlot(w, program_counter, ident, rs_value, rt_value) ==
    [ PipelineStageData(w, program_counter, ident) EXCEPT
          !.rs_value = rs_value, !.rt_value = rt_value, !.dest_reg = DestOf(w) ]

\* ... with its operands read from the fixture's register file
ReadSlot(w, program_counter, ident) ==
    LET instr == Instruction(w)
    IN  DecodedSlot(w, program_counter, ident,
                    RegRead(StageRegisters, instr.rs_),
                    IF needsRtValue(instr)
                    THEN RegRead(StageRegisters, instr.rt_) ELSE 0)

\* the slot of an instruction that has also passed Execute
ExecutedSlot(slot) ==
    LET instr == Instr(slot)
    IN  [ slot EXCEPT !.alu_result =
              ALU(instr.opcode_, slot.rs_value, slot.rt_value,
                  instr.immediate_, slot.pc, slot.pc) ]

\* every opcode in Decode with every pairing of R0, R1 and R2 as rs and rt
ConsumerWords ==
    { IF get_instruction_type(op) = "R_TYPE"
      THEN EncodeR(op, rs, rt, 3) ELSE EncodeI(op, rs, rt, 2) :
        op \in 0 .. HALT, rs \in 0 .. 2, rt \in 0 .. 2 }

\* instructions ahead of Decode: an I-type, an R-type and a load writing
\* R0, R1 or R2, a store whose rt is R1, and a BZ on R1 that is not taken
ProducerWords ==
    UNION { { EncodeI(ADDI, 0, d, 11), EncodeR(SUB, 0, 0, d),
              EncodeI(LDW, 0, d, 16) } : d \in 0 .. 2 }
      \cup { EncodeI(STW, 0, 1, 16), EncodeI(BZ, 1, 0, 2) }

\* a BZ, a BEQ or a JR in Execute, with word offsets of either sign
BranchWords ==
    { EncodeI(op, 1, 2, imm) :
        op \in {BZ, BEQ, JR}, imm \in {2, 0, -1, -3, 32767, -32768} }

\* Decode holds a consumer, Execute and Memory a producer or a bubble
HazardSetups ==
    { [ decode |-> PipelineStageData(w, 2 * WORD_SIZE, 3), execute |-> ex,
        memory |-> mem ] :
        w \in ConsumerWords,
        ex \in {EmptySlot} \cup { ReadSlot(x, WORD_SIZE, 2) : x \in ProducerWords },
        mem \in {EmptySlot} \cup
                { ExecutedSlot(ReadSlot(x, 0, 1)) : x \in ProducerWords \ {EncodeI(BZ, 1, 0, 2)} } }

\* Execute holds a branch whose operands were read as rs_value and rt_value
BranchSetups ==
    { [ decode |-> PipelineStageData(EncodeI(ADDI, 1, 3, 1), 2 * WORD_SIZE, 3),
        execute |-> DecodedSlot(b, WORD_SIZE, 2, rs_value, rt_value),
        memory |-> mem ] :
        b \in BranchWords, rs_value \in {0, 16, 6, -4}, rt_value \in {0, 16},
        mem \in {EmptySlot, ExecutedSlot(ReadSlot(EncodeI(ADDI, 0, 1, 11), 0, 1))} }

StageSetups == HazardSetups \cup BranchSetups

\* the cycles that brought three instructions into the pipeline
Filled == NUM_STAGES - 2

InitStage ==
    \E setup \in StageSetups :
        /\ program = << setup.memory.instruction, setup.execute.instruction,
                        setup.decode.instruction, HaltWord >>
        /\ pc = [f \in Sims |-> 3 * WORD_SIZE]
        /\ branch_taken = [f \in Sims |-> FALSE]
        /\ pipeline = [f \in Sims |->
               [stage \in Stages |->
                   CASE stage = DECODE  -> setup.decode
                     [] stage = EXECUTE -> setup.execute
                     [] stage = MEMORY  -> setup.memory
                     [] OTHER           -> EmptySlot]]
        /\ forward = [f \in Sims |-> f]
        /\ halt_pipeline = [f \in Sims |-> FALSE]
        /\ stall = [f \in Sims |-> FALSE]
        /\ program_finished = [f \in Sims |-> FALSE]
        /\ registers = [f \in Sims |-> StageRegisters]
        /\ memory_content_ = [f \in Sims |-> program]
        /\ instructionCounts = [f \in Sims |-> [c \in Categories |-> 0]]
        /\ stat_registers = [f \in Sims |-> {}]
        /\ memoryAddresses = [f \in Sims |-> {}]
        /\ stalls = [f \in Sims |-> 0]
        /\ clockCycles = [f \in Sims |-> Filled]
        /\ error = [f \in Sims |-> "none"]
        /\ log = [f \in Sims |->
               [i \in 1 .. 3 |-> LogEntry(program[i], (i - 1) * WORD_SIZE, i)]]
        /\ idle = [f \in Sims |-> FALSE]
        /\ args = [f \in Sims |-> FixtureArgs(f)]
        /\ constructed = [f \in Sims |-> TRUE]
        /\ loop = [f \in Sims |-> "running"]
        /\ parser = MemoryParser(<< >>)
        /\ calls = << >>
        /\ instruction_ = 0
        /\ decoded = << >>

\* the one call of cycle() a stage test makes
StageCall(f) ==
    /\ clockCycles[f] = Filled
    /\ error[f] = "none"
    /\ Call(f)

NextStage == \E f \in Sims : StageCall(f)

SpecStage == InitStage /\ [][NextStage]_vars

(***************************************************************************)
(* C24.  The stall decision of a call equals the policy table: a source r  *)
(* of the instruction in Decode (rs always, rt only for R-type, BEQ and    *)
(* STW) is a hazard against a stage iff r is non-zero, the stage is        *)
(* occupied and its destination is r; without forwarding any hazard        *)
(* against Execute or Memory stalls, with forwarding only a hazard against *)
(* an LDW in Execute; no hazard or an empty Decode slot gives no stall.    *)
(***************************************************************************)
PolicySources(f) ==
    LET instr == Instr(pipeline[f][DECODE])
    IN  {instr.rs_} \cup
        (IF instr.opcode_ \in {ADD, SUB, MUL, OR, AND, XOR, BEQ, STW}
         THEN {instr.rt_} ELSE {})

PolicyHazard(f, r, stage) ==
    /\ r # 0
    /\ pipeline[f][stage].valid
    /\ pipeline[f][stage].dest_reg = r

PolicyStall(f) ==
    /\ pipeline[f][DECODE].valid
    /\ \E r \in PolicySources(f) :
           IF forward[f]
           THEN /\ PolicyHazard(f, r, EXECUTE)
                /\ Instr(pipeline[f][EXECUTE]).opcode_ = LDW
           ELSE PolicyHazard(f, r, EXECUTE) \/ PolicyHazard(f, r, MEMORY)

\* the instruction in Execute resolves as a taken branch in this call, so
\* that Decode is flushed and no stall decision is made
TakenNow(f) ==
    /\ pipeline[f][EXECUTE].valid
    /\ log'[f][pipeline[f][EXECUTE].id].taken

C24_StallPolicy ==
    [][\A f \in Sims :
          Advanced(f) =>
              stall'[f] = (IF TakenNow(f) THEN FALSE ELSE PolicyStall(f))]_vars

C24_Witness ==
    /\ stall[TRUE] /\ stall[FALSE]
    /\ stalls[TRUE] = 1
    /\ Instr(pipeline[TRUE][MEMORY]).opcode_ = LDW
    /\ Instr(pipeline[TRUE][DECODE]).opcode_ = STW
    /\ Instr(pipeline[TRUE][DECODE]).rt_ = pipeline[TRUE][MEMORY].dest_reg
    /\ Instr(pipeline[TRUE][DECODE]).rs_ # pipeline[TRUE][MEMORY].dest_reg

(***************************************************************************)
(* C25.  With forwarding enabled, an instruction that Decode read in this  *)
(* cycle (it is now in Execute; its producers, one slot further on, are in *)
(* Memory and Writeback) has for every non-zero source register the value  *)
(* chosen by priority: the ALU result of the non-load one slot ahead if    *)
(* its destination matches; otherwise, if the destination two slots ahead  *)
(* matches, its memory-load field for an LDW and its ALU result if not;    *)
(* otherwise the register file.  The value is therefore that of the        *)
(* youngest older writer of the register still in flight.                  *)
(***************************************************************************)
\* the instruction now in Execute passed Decode in the cycle just made
JustDecoded(f) ==
    /\ error[f] = "none"
    /\ pipeline[f][EXECUTE].valid
    /\ log[f][pipeline[f][EXECUTE].id].decoded = clockCycles[f]

\* what a producer hands to a reader
Produced(slot) ==
    IF Instr(slot).opcode_ = LDW THEN slot.memory_data ELSE slot.alu_result

\* the slot that was in Execute, and the one that was in Memory, when Decode
\* read its registers
WasExecute(f) == pipeline[f][MEMORY]

WasMemory(f) == pipeline[f][WRITEBACK]

PriorityValue(f, r) ==
    IF /\ WasExecute(f).valid /\ WasExecute(f).dest_reg = r
       /\ Instr(WasExecute(f)).opcode_ # LDW
    THEN WasExecute(f).alu_result
    ELSE IF WasMemory(f).valid /\ WasMemory(f).dest_reg = r
         THEN (IF Instr(WasMemory(f)).opcode_ = LDW
               THEN WasMemory(f).memory_data
               ELSE WasMemory(f).alu_result)
         ELSE registers[f][r]

\* the older instructions in flight that write register r
InFlightWriters(f, r) ==
    { slot \in {WasExecute(f), WasMemory(f)} : slot.valid /\ slot.dest_reg = r }

YoungestWriterValue(f, r) ==
    IF InFlightWriters(f, r) = {} THEN registers[f][r]
    ELSE Produced(CHOOSE slot \in InFlightWriters(f, r) :
                      \A other \in InFlightWriters(f, r) : other.id <= slot.id)

\* the source values Decode left in the slot, by register number
SourcesRead(slot) ==
    LET instr == Instr(slot)
    IN  { << instr.rs_, slot.rs_value >> } \cup
        (IF instr.opcode_ \in {ADD, SUB, MUL, OR, AND, XOR, BEQ, STW}
         THEN { << instr.rt_, slot.rt_value >> } ELSE {})

C25_ForwardPriority ==
    \A f \in Sims :
        (forward[f] /\ JustDecoded(f)) =>
            \A read \in SourcesRead(pipeline[f][EXECUTE]) :
                read[1] # 0 =>
                    /\ read[2] = PriorityValue(f, read[1])
                    /\ read[2] = YoungestWriterValue(f, read[1])

\* an ADD whose rs is served by the non-load in Execute and whose rt is
\* served by the load field of an LDW in Memory, neither from the file
C25_Witness ==
    /\ forward[TRUE] /\ JustDecoded(TRUE)
    /\ LET slot == pipeline[TRUE][EXECUTE]
           instr == Instr(slot)
       IN  /\ instr.opcode_ = ADD
           /\ instr.rs_ # 0 /\ instr.rt_ # 0 /\ instr.rs_ # instr.rt_
           /\ WasExecute(TRUE).valid /\ WasExecute(TRUE).dest_reg = instr.rs_
           /\ WasMemory(TRUE).valid /\ WasMemory(TRUE).dest_reg = instr.rt_
           /\ Instr(WasMemory(TRUE)).opcode_ = LDW
           /\ slot.rs_value = WasExecute(TRUE).alu_result
           /\ slot.rs_value # registers[TRUE][instr.rs_]
           /\ slot.rt_value = WasMemory(TRUE).memory_data
           /\ slot.rt_value # registers[TRUE][instr.rt_]

(***************************************************************************)
(* C26.  With forwarding disabled, whenever Decode read a non-zero source  *)
(* register in a cycle, neither the instruction that was in Execute nor    *)
(* the one that was in Memory has that register as its destination, and    *)
(* the value read is the register file's.                                  *)
(***************************************************************************)
C26_NoForwardReadsFile ==
    \A f \in Sims :
        (~forward[f] /\ JustDecoded(f)) =>
            \A read \in SourcesRead(pipeline[f][EXECUTE]) :
                read[1] # 0 =>
                    /\ InFlightWriters(f, read[1]) = {}
                    /\ read[2] = registers[f][read[1]]

\* Decode read two non-zero registers behind two instructions that write
\* other registers
C26_Witness ==
    /\ ~forward[FALSE] /\ JustDecoded(FALSE)
    /\ LET slot == pipeline[FALSE][EXECUTE]
           instr == Instr(slot)
       IN  /\ instr.opcode_ \in {ADD, BEQ, STW}
           /\ instr.rs_ # 0 /\ instr.rt_ # 0
           /\ WasExecute(FALSE).valid /\ WasExecute(FALSE).dest_reg # NoValue
           /\ WasMemory(FALSE).valid /\ WasMemory(FALSE).dest_reg # NoValue
           /\ slot.rs_value = registers[FALSE][instr.rs_]
           /\ slot.rt_value = registers[FALSE][instr.rt_]
           /\ slot.rs_value # 0 /\ slot.rt_value # 0

(***************************************************************************)
(* C27.  From a freshly constructed engine, no sequence of cycle() calls   *)
(* raises an internal-invariant error: a register read while stalled, a    *)
(* forward requested from an LDW still in Execute, or a taken branch seen  *)
(* with an empty Execute slot.                                             *)
(***************************************************************************)
InvariantErrors == {"StallRead", "LoadForward", "BranchEmptyExecute"}

C27_NoInvariantError ==
    \A f \in Sims : error[f] \notin InvariantErrors

\* the two errors of readRegisterValue, apart from the branch one
C27_NoReadError ==
    \A f \in Sims : error[f] \notin {"StallRead", "LoadForward"}

(***************************************************************************)
(* C28.  When a run has ended and the HALT itself passed Writeback, the    *)
(* cycle count is the number of instructions that passed Writeback (the    *)
(* HALT included), plus 4, plus the stall count, plus 2 for every taken    *)
(* branch.                                                                 *)
(***************************************************************************)
PassedWriteback(f) == { i \in Fetched(f) : log[f][i].committed > 0 }

TakenBranches(f) == { i \in Fetched(f) : log[f][i].taken }

HaltPassedWriteback(f) ==
    /\ Completed(f)
    /\ \E i \in PassedWriteback(f) : is_halt_instruction(log[f][i].word)

C28_CycleCount ==
    \A f \in Sims :
        HaltPassedWriteback(f) =>
            clockCycles[f] = Cardinality(PassedWriteback(f)) + 4 + stalls[f]
                               + 2 * Cardinality(TakenBranches(f))

\* a finished run with a taken branch and with stalls, in which not every
\* fetched instruction passed Writeback
C28_Witness ==
    /\ HaltPassedWriteback(FALSE)
    /\ TakenBranches(FALSE) # {}
    /\ stalls[FALSE] > 0
    /\ Cardinality(PassedWriteback(FALSE)) < Len(log[FALSE])

(***************************************************************************)
(* C29.  In a cycle whose Execute slot holds a branch: a BZ whose rs value *)
(* is 0 or a BEQ whose rs and rt values are equal sets the program counter *)
(* to the address the branch was fetched from plus 4 times its             *)
(* sign-extended immediate, modulo 2^32; a JR sets it to its rs value; a   *)
(* BZ or BEQ whose condition is false leaves branch_taken false and does   *)
(* not redirect the program counter, which is only moved on by 4 if the    *)
(* cycle fetches.                                                          *)
(***************************************************************************)
\* the low 16 bits of the word, read as a two's complement number
SignExtended(w) ==
    LET low == w % Half
    IN  IF low >= Half \div 2 THEN low - Half ELSE low

ConditionHolds(slot) ==
    CASE Instr(slot).opcode_ = BZ  -> slot.rs_value = 0
      [] Instr(slot).opcode_ = BEQ -> slot.rs_value = slot.rt_value
      [] OTHER                     -> TRUE

BranchTarget(slot) ==
    IF Instr(slot).opcode_ = JR THEN slot.rs_value
    ELSE Add32(slot.pc, 4 * SignExtended(slot.instruction))

\* where the fetch step alone leaves the program counter
FetchOnly(f) ==
    IF Len(log'[f]) > Len(log[f]) THEN Add32(pc[f], WORD_SIZE) ELSE pc[f]

C29_BranchTargets ==
    [][\A f \in Sims :
          LET slot == pipeline[f][EXECUTE]
          IN  ( /\ Advanced(f)
                /\ slot.valid
                /\ Instr(slot).opcode_ \in {BZ, BEQ, JR} ) =>
                  IF ConditionHolds(slot)
                  THEN pc'[f] = BranchTarget(slot)
                  ELSE /\ ~branch_taken'[f]
                       /\ pc'[f] = FetchOnly(f)]_vars

\* a BEQ on equal values and a negative offset has wrapped the program
\* counter below zero, that is, past 2^31
C29_Witness ==
    LET slot == pipeline[TRUE][MEMORY]
    IN  /\ error[TRUE] = "none"
        /\ slot.valid
        /\ Instr(slot).opcode_ = BEQ
        /\ slot.rs_value = slot.rt_value /\ slot.rs_value # 0
        /\ log[TRUE][slot.id].executed = clockCycles[TRUE]
        /\ SignExtended(slot.instruction) < 0
        /\ pc[TRUE] = BranchTarget(slot)
        /\ pc[TRUE] < 0

(***************************************************************************)
(* C30.  Decode gives an instruction a destination register iff its opcode *)
(* is R-type or one of ADDI, SUBI, MULI, ORI, ANDI, XORI, LDW: bits 15..11 *)
(* (rd) for R-type, bits 20..16 (rt) for those I-type opcodes; STW, BZ,    *)
(* BEQ, JR and HALT get none, and the cycle in which one of them is in     *)
(* Writeback changes neither the register file nor the set of modified     *)
(* registers.                                                              *)
(***************************************************************************)
OpcodeBits(w) == (w \div 67108864) % 64

DestinationTable(w) ==
    CASE OpcodeBits(w) \in {ADD, SUB, MUL, OR, AND, XOR} -> (w \div 2048) % 32
      [] OpcodeBits(w) \in {ADDI, SUBI, MULI, ORI, ANDI, XORI, LDW}
                                                        -> (w \div 65536) % 32
      [] OTHER                                          -> NoValue

\* Decode read the instruction of its slot in this call
DecodesNow(f) ==
    /\ Advanced(f)
    /\ pipeline[f][DECODE].valid
    /\ log'[f][pipeline[f][DECODE].id].decoded = clockCycles'[f]

\* an instruction without a destination is in Writeback in this call
CommitsNoDestination(f) ==
    /\ Ran(f)
    /\ pipeline[f][WRITEBACK].valid
    /\ OpcodeBits(pipeline[f][WRITEBACK].instruction) \in {STW, BZ, BEQ, JR, HALT}

C30_Destinations ==
    [][\A f \in Sims :
          /\ DecodesNow(f) =>
                /\ SameInstruction(pipeline'[f][EXECUTE], pipeline[f][DECODE])
                /\ pipeline'[f][EXECUTE].dest_reg =
                       DestinationTable(pipeline[f][DECODE].instruction)
          /\ CommitsNoDestination(f) =>
                /\ pipeline[f][WRITEBACK].dest_reg = NoValue
                /\ registers'[f] = registers[f]
                /\ stat_registers'[f] = stat_registers[f]]_vars

\* a store whose rt is R2 has passed Writeback behind instructions that
\* wrote R1 and R2, and the registers are as those left them
C30_Witness ==
    \E i \in Fetched(FALSE) :
        /\ error[FALSE] = "none"
        /\ OpcodeBits(log[FALSE][i].word) = STW
        /\ log[FALSE][i].committed = clockCycles[FALSE]
        /\ ~log[FALSE][i].wroteReg
        /\ stat_registers[FALSE] = {1, 2}
        /\ registers[FALSE][2] # 0

(***************************************************************************)
(* C31.  In every cycle, Writeback commits for an occupied slot with a     *)
(* destination the memory-load field if the instruction is LDW and the ALU *)
(* result otherwise, and records the destination in the modified-register  *)
(* set (a destination of register 0 is skipped: it changes neither); for   *)
(* an empty slot or an instruction without destination the register file   *)
(* and the modified-register set are unchanged.                            *)
(***************************************************************************)
\* the value Writeback owes the destination of the slot
OwedValue(slot) ==
    IF OpcodeBits(slot.instruction) = LDW THEN slot.memory_data
    ELSE slot.alu_result

WritesBack(slot) == slot.valid /\ slot.dest_reg \notin {NoValue, 0}

ImageAddresses(f) ==
    { WORD_SIZE * k : k \in 0 .. (Len(memory_content_[f]) + Len(memory_content_'[f])) }

MemoryUntouched(f) ==
    \A a \in ImageAddresses(f) :
        MemValue(memory_content_'[f], a) = MemValue(memory_content_[f], a)

C32_MemoryStage ==
    [][\A f \in Sims :
          LET slot == pipeline[f][MEMORY]
              after == pipeline'[f][WRITEBACK]
              addr == slot.alu_result
          IN  Advanced(f) =>
                /\ SameInstruction(after, slot)
                /\ CASE slot.valid /\ OpcodeBits(slot.instruction) = LDW ->
                          /\ after.memory_data = MemValue(memory_content_[f], addr)
                          /\ MemoryUntouched(f)
                          /\ memoryAddresses'[f] = memoryAddresses[f]
                     [] slot.valid /\ OpcodeBits(slot.instruction) = STW ->
                          /\ MemValue(memory_content_'[f], addr) = slot.rt_value
                          /\ \A a \in ImageAddresses(f) \ {addr} :
                                 MemValue(memory_content_'[f], a)
                                    = MemValue(memory_content_[f], a)
                          /\ memoryAddresses'[f] = memoryAddresses[f] \cup {addr}
                          /\ Cardinality(memoryAddresses'[f]) =
                                 Cardinality(memoryAddresses[f])
                                   + (IF addr \in memoryAddresses[f] THEN 0 ELSE 1)
                          /\ after.memory_data = slot.memory_data
                     [] OTHER ->
                          /\ MemoryUntouched(f)
                          /\ memoryAddresses'[f] = memoryAddresses[f]
                          /\ after.memory_data = slot.memory_data]_vars

\* a second STW to the same address has passed the Memory stage in this
\* cycle, behind an LDW that has passed it too
C32_Witness ==
    /\ error[FALSE] = "none"
    /\ \E i, j \in Fetched(FALSE) :
           /\ i < j
           /\ log[FALSE][i].stored /\ log[FALSE][j].stored
           /\ log[FALSE][i].storeAddr = log[FALSE][j].storeAddr
           /\ log[FALSE][j].accessed = clockCycles[FALSE]
           /\ memoryAddresses[FALSE] = {log[FALSE][j].storeAddr}
    /\ \E k \in Fetched(FALSE) :
           /\ OpcodeBits(log[FALSE][k].word) = LDW
           /\ log[FALSE][k].accessed > 0

(***************************************************************************)
(* C33.  Within a cycle the register file is changed only by the Writeback *)
(* step and the memory only by the Memory step, and by that only for an    *)
(* STW: the Execute step and all that follows it (hazard detection, Decode *)
(* and Fetch, or the branch flush, and the slot advance) leave all 32      *)
(* registers and every memory word as they found them.                     *)
(***************************************************************************)
\* the engine of f after each step of the cycle() call it would make next
AfterWriteback(f) == writeBack(incrementClockCycles(Sim(f)))

AfterMemory(f) == memory(AfterWriteback(f))

AfterExecute(f) == execute(AfterMemory(f))

AfterDispatch(f) == dispatch(AfterExecute(f))

\* the call is made and the step is reached
CallReaches(f, before) ==
    /\ error[f] = "none"
    /\ ~checkProgramCompletion(Sim(f))
    /\ before.error = "none"

C33_OnlyWritebackAndStore ==
    \A f \in Sims :
        /\ CallReaches(f, Sim(f)) =>
              AfterWriteback(f).memory_content_ = memory_content_[f]
        /\ CallReaches(f, AfterWriteback(f)) =>
              /\ AfterMemory(f).registers = AfterWriteback(f).registers
              /\ AfterMemory(f).memory_content_ # memory_content_[f] =>
                    /\ pipeline[f][MEMORY].valid
                    /\ OpcodeBits(pipeline[f][MEMORY].instruction) = STW
        /\ CallReaches(f, AfterMemory(f)) =>
              /\ AfterExecute(f).registers = AfterMemory(f).registers
              /\ AfterExecute(f).memory_content_ = AfterMemory(f).memory_content_
        /\ CallReaches(f, AfterExecute(f)) =>
              /\ AfterDispatch(f).registers = AfterExecute(f).registers
              /\ AfterDispatch(f).memory_content_ = AfterExecute(f).memory_content_

\* a cycle in which Writeback changes a register and the Memory step
\* stores, while the steps behind them decode and fetch
C33_Witness ==
    /\ CallReaches(TRUE, AfterExecute(TRUE))
    /\ AfterWriteback(TRUE).registers # registers[TRUE]
    /\ AfterMemory(TRUE).memory_content_ # memory_content_[TRUE]
    /\ pipeline[TRUE][DECODE].valid
    /\ AfterDispatch(TRUE).error = "none"
    /\ AfterDispatch(TRUE).pc # pc[TRUE]

(***************************************************************************)
(* C34.  An instruction that is not flushed moves through Fetch, Decode,   *)
(* Execute, Memory and Writeback in that order, one slot per cycle() and   *)
(* never backwards: a stalled cycle keeps it in Decode (or in Fetch behind *)
(* it) and does not decode it; the cycle that moves it on from Decode is   *)
(* the one that decodes it, the cycle it starts in Execute the one that    *)
(* executes it, the cycle it starts in Memory the one that gives it its    *)
(* memory access, and the cycle it starts in Writeback the one that        *)
(* commits it, after which it is in no slot; none of these happened to it  *)
(* before, and it never occupies two slots.                                *)
(***************************************************************************)
SlotsOf(pl, i) == { stage \in Stages : pl[stage].valid /\ pl[stage].id = i }

\* the stage an instruction is in, NoValue if it is in none
StageOf(pl, i) ==
    IF SlotsOf(pl, i) = {} THEN NoValue ELSE CHOOSE stage \in SlotsOf(pl, i) : TRUE

Lifecycle(f, i) ==
    LET before == StageOf(pipeline[f], i)
        after == StageOf(pipeline'[f], i)
        was == IF i \in Fetched(f) THEN log[f][i]
               ELSE LogEntry(log'[f][i].word, log'[f][i].pc, 0)
        is == log'[f][i]
        now == clockCycles'[f]
    IN  /\ Cardinality(SlotsOf(pipeline'[f], i)) <= 1
        /\ CASE is.flushed = now -> before \in {FETCH, DECODE} /\ after = NoValue
             [] i \notin Fetched(f) ->
                  /\ is.fetched = now
                  /\ after = IF stall'[f] THEN FETCH ELSE DECODE
             [] before = FETCH ->
                  after = IF stall'[f] THEN FETCH ELSE DECODE
             [] before = DECODE ->
                  IF stall'[f]
                  THEN after = DECODE /\ is.decoded = 0
                  ELSE after = EXECUTE /\ was.decoded = 0 /\ is.decoded = now
             [] before = EXECUTE ->
                  /\ after = MEMORY
                  /\ was.decoded > 0 /\ was.executed = 0 /\ is.executed = now
             [] before = MEMORY ->
                  /\ after = WRITEBACK
                  /\ was.executed > 0 /\ was.accessed = 0 /\ is.accessed = now
             [] before = WRITEBACK ->
                  /\ after = NoValue
                  /\ was.accessed > 0 /\ was.committed = 0 /\ is.committed = now
             [] OTHER -> after = NoValue /\ is = was

C34_Lifecycle ==
    [][\A f \in Sims :
          Advanced(f) => \A i \in 1 .. Len(log'[f]) : Lifecycle(f, i)]_vars

\* an instruction that waited in Decode for two stalled cycles has passed
\* Writeback, four cycles after it was decoded
C34_Witness ==
    \E i \in Fetched(FALSE) :
        /\ error[FALSE] = "none"
        /\ log[FALSE][i].committed = clockCycles[FALSE]
        /\ log[FALSE][i].decoded = log[FALSE][i].entered + 2
        /\ log[FALSE][i].executed = log[FALSE][i].decoded + 1
        /\ log[FALSE][i].accessed = log[FALSE][i].decoded + 2
        /\ log[FALSE][i].committed = log[FALSE][i].decoded + 3
        /\ StageOf(pipeline[FALSE], i) = NoValue

(***************************************************************************)
(* Execute on its own, as the Execute stage tests call it: one instruction *)
(* is placed in the Execute slot with the operand values Decode would have *)
(* left, sim->execute() is called once on each simulator, and              *)
(* execute_logical() is called once on each register file, in which the    *)
(* same operands are in R1 and R2.                                         *)
(***************************************************************************)
MaxInt32 == -(MinInt32 + 1)

\* a + b, a - b or a * b leaves the range of int32_t
AddOverflows(a, b) ==
    \/ a >= 0 /\ b >= 0 /\ Add32(a, b) < 0
    \/ a < 0 /\ b < 0 /\ Add32(a, b) >= 0

SubOverflows(a, b) ==
    \/ a >= 0 /\ b < 0 /\ Sub32(a, b) < 0
    \/ a < 0 /\ b >= 0 /\ Sub32(a, b) >= 0

MulOverflows(a, b) ==
    IF a = 0 \/ b = 0 THEN FALSE
    ELSE IF a = MinInt32 THEN b # 1
    ELSE IF b = MinInt32 THEN a # 1
    ELSE LET x == IF a < 0 THEN 0 - a ELSE a
             y == IF b < 0 THEN 0 - b ELSE b
             q == MaxInt32 \div y
             r == MaxInt32 % y
         IN  IF (a < 0) = (b < 0) THEN x > q
             ELSE x > q /\ ~(x = q + 1 /\ r = y - 1)

\* the int32_t expression that execute() evaluates for the slot overflows,
\* which the language leaves undefined
SignedOverflow(slot) ==
    LET instr == Instr(slot)
        opcode == instr.opcode_
        a == slot.rs_value
        b == IF instr.hasImmediate THEN instr.immediate_ ELSE slot.rt_value
    IN  /\ slot.valid
        /\ CASE opcode \in {ADD, ADDI, LDW, STW} -> AddOverflows(a, b)
             [] opcode \in {SUB, SUBI}           -> SubOverflows(a, b)
             [] opcode \in {MUL, MULI}           -> MulOverflows(a, b)
             [] OTHER                            -> FALSE

\* no instruction of the programs and setups of the specifications above
\* overflows, so that cycle() has one outcome in them
NoSignedOverflow == \A f \in Sims : ~SignedOverflow(pipeline[f][EXECUTE])

\* the engines sim->execute() can leave: the one of execute(s), and on a
\* signed overflow also one with either end of the int32_t range as the
\* result (a build that does not wrap) and one that trapped
executeOutcomes(s) ==
    IF SignedOverflow(s.pipeline[EXECUTE])
    THEN { execute(s), Raise(s, "OverflowTrap") } \cup
         { [execute(s) EXCEPT !.pipeline[EXECUTE].alu_result = v] :
               v \in {MinInt32, MaxInt32} }
    ELSE { execute(s) }

\* execute_logical(instr, rf): the register file after the call, and the
\* exception that left it
execute_logical(instr, rf) ==
    LET rs_val == RegRead(rf, instr.rs_)
        imm16 == instr.immediate_ % Half
        opcode == instr.opcode_
    IN  CASE opcode = AND  -> [error |-> "none",
               rf |-> RegWrite(rf, instr.rd_, And32(rs_val, RegRead(rf, instr.rt_)))]
          [] opcode = ANDI -> [error |-> "none",
               rf |-> RegWrite(rf, instr.rt_, And32(rs_val, imm16))]
          [] opcode = OR   -> [error |-> "none",
               rf |-> RegWrite(rf, instr.rd_, Or32(rs_val, RegRead(rf, instr.rt_)))]
          [] opcode = ORI  -> [error |-> "none",
               rf |-> RegWrite(rf, instr.rt_, Or32(rs_val, imm16))]
          [] opcode = XOR  -> [error |-> "none",
               rf |-> RegWrite(rf, instr.rd_, Xor32(rs_val, RegRead(rf, instr.rt_)))]
          [] opcode = XORI -> [error |-> "none",
               rf |-> RegWrite(rf, instr.rt_, Xor32(rs_val, imm16))]
          [] OTHER         -> [error |-> "UnsupportedLogical", rf |-> rf]

\* operand values: small ones of either sign, the ends of the int32_t
\* range, and factors whose product passes 2^31
OperandValues ==
    { 0, 1, -1, 10, -20, 170, 46341, Half, 0 - Half, MaxInt32, MaxInt32 - 1,
      MinInt32, MinInt32 + 1 }

\* immediates of either sign, with and without bit 15
Immediates == { 0, 1, 255, 32767, -1, -256, -32768 }

\* R-type words on R1 and R2 into R3, I-type words on R1 into R2
ExecuteWords ==
    { EncodeR(op, 1, 2, 3) : op \in {ADD, SUB, MUL, OR, AND, XOR} }
      \cup { EncodeI(op, 1, 2, imm) :
                op \in {ADDI, SUBI, MULI, ORI, ANDI, XORI, LDW, STW},
                imm \in Immediates }

InitExecute ==
    \E w \in ExecuteWords, rs_value \in OperandValues, rt_value \in OperandValues :
        /\ Instruction(w).hasImmediate => rt_value = 0
        /\ program = << w, HaltWord >>
        /\ pc = [f \in Sims |-> WORD_SIZE]
        /\ branch_taken = [f \in Sims |-> FALSE]
        /\ pipeline = [f \in Sims |->
               [stage \in Stages |->
                   IF stage = EXECUTE
                   THEN DecodedSlot(w, 0, 1, rs_value, rt_value)
                   ELSE EmptySlot]]
        /\ forward = [f \in Sims |-> f]
        /\ halt_pipeline = [f \in Sims |-> FALSE]
        /\ stall = [f \in Sims |-> FALSE]
        /\ program_finished = [f \in Sims |-> FALSE]
        /\ registers = [f \in Sims |->
               [r \in 0 .. (NUM_REGISTERS - 1) |->
                   CASE r = 1 -> rs_value [] r = 2 -> rt_value [] OTHER -> 0]]
        /\ memory_content_ = [f \in Sims |-> program]
        /\ instructionCounts = [f \in Sims |-> [c \in Categories |-> 0]]
        /\ stat_registers = [f \in Sims |-> {}]
        /\ memoryAddresses = [f \in Sims |-> {}]
        /\ stalls = [f \in Sims |-> 0]
        /\ clockCycles = [f \in Sims |-> Filled - 1]
        /\ error = [f \in Sims |-> "none"]
        /\ log = [f \in Sims |-> << LogEntry(w, 0, 1) >>]
        /\ idle = [f \in Sims |-> FALSE]
        /\ args = [f \in Sims |-> FixtureArgs(f)]
        /\ constructed = [f \in Sims |-> TRUE]
        /\ loop = [f \in Sims |-> "running"]
        /\ parser = MemoryParser(<< >>)
        /\ calls = << >>
        /\ instruction_ = w
        /\ decoded = << >>

\* sim->execute() on simulator f
Execute(f) ==
    /\ log[f][1].executed = 0
    /\ error[f] = "none"
    /\ \E t \in executeOutcomes(Sim(f)) :
           /\ pipeline' = [pipeline EXCEPT ![f] = t.pipeline]
           /\ branch_taken' = [branch_taken EXCEPT ![f] = t.branch_taken]
           /\ halt_pipeline' = [halt_pipeline EXCEPT ![f] = t.halt_pipeline]
           /\ error' = [error EXCEPT ![f] = t.error]
           /\ log' = [log EXCEPT ![f] =
                         [t.log EXCEPT ![1].executed = clockCycles[f]]]
    /\ UNCHANGED << program, pc, forward, stall, program_finished, registers,
                    memory_content_, instructionCounts, stat_registers,
                    memoryAddresses, stalls, clockCycles, idle, args,
                    constructed, loop, parser, calls, instruction_, decoded >>

\* execute_logical(instr, rf) on the register file of simulator f
ExecuteLogical(f) ==
    /\ \A i \in 1 .. Len(calls) : calls[i].rf # f
    /\ \E r \in {execute_logical(Instruction(instruction_), registers[f])} :
           /\ registers' = [registers EXCEPT ![f] = r.rf]
           /\ calls' = Append(calls, [op |-> "execute_logical", rf |-> f,
                                      error |-> r.error])
    /\ UNCHANGED << program, pc, branch_taken, pipeline, forward, halt_pipeline,
                    stall, program_finished, memory_content_,
                    instructionCounts, stat_registers, memoryAddresses, stalls,
                    clockCycles, error, log, idle, args, constructed, loop,
                    parser, instruction_, decoded >>

NextExecute == \E f \in Sims : Execute(f) \/ ExecuteLogical(f)

SpecExecute == InitExecute /\ [][NextExecute]_vars

(***************************************************************************)
(* C35.  For ADD, ADDI, SUB, SUBI, MUL, MULI and the address of LDW and    *)
(* STW, Execute leaves in the ALU result the sum, difference or product of *)
(* its signed operands modulo 2^32, for every pair of operand values, an   *)
(* overflowing pair included.                                              *)
(***************************************************************************)
Arithmetic == {ADD, ADDI, SUB, SUBI, MUL, MULI, LDW, STW}

\* the slot of simulator f has been through execute()
Executed(f) == pipeline[f][EXECUTE].valid /\ log[f][1].executed > 0

\* the result modulo 2^32
Wrapped(slot) ==
    LET instr == Instr(slot)
        a == slot.rs_value
        b == IF instr.opcode_ \in {ADD, SUB, MUL} THEN slot.rt_value
             ELSE SignExtended(slot.instruction)
    IN  CASE instr.opcode_ \in {ADD, ADDI, LDW, STW} -> Add32(a, b)
          [] instr.opcode_ \in {SUB, SUBI}           -> Sub32(a, b)
          [] instr.opcode_ \in {MUL, MULI}           -> Mul32(a, b)

C35_ArithmeticWraps ==
    \A f \in Sims :
        LET slot == pipeline[f][EXECUTE]
        IN  (log[f][1].executed > 0 /\ Instr(slot).opcode_ \in Arithmetic) =>
                /\ error[f] = "none"
                /\ slot.alu_result = Wrapped(slot)

\* the same, for the operand pairs whose result is within int32_t
C35_ArithmeticInRange ==
    \A f \in Sims :
        LET slot == pipeline[f][EXECUTE]
        IN  ( /\ log[f][1].executed > 0
              /\ Instr(slot).opcode_ \in Arithmetic
              /\ ~SignedOverflow(slot) ) =>
                /\ error[f] = "none"
                /\ slot.alu_result = Wrapped(slot)

(***************************************************************************)
(* C36.  A decoded word has an immediate iff it is I-type, and the         *)
(* immediate is its 16-bit field read as two's complement: fields 0x0000   *)
(* to 0x7FFF give 0 to 32767, fields 0x8000 to 0xFFFF give -32768 to -1,   *)
(* the upper 16 bits of the 32-bit value all set.                          *)
(***************************************************************************)
ImmediateField(w) == w % Half

C36_SignExtension ==
    \A i \in 1 .. Len(decoded) :
        LET instr == decoded[i]
            field == ImmediateField(instruction_)
        IN  /\ instr.hasImmediate =
                   (OpcodeBits(instruction_) \notin {ADD, SUB, MUL, OR, AND, XOR})
            /\ instr.hasImmediate =>
                   IF field < 32768
                   THEN instr.immediate_ = field
                   ELSE /\ instr.immediate_ = field - 65536
                        /\ instr.immediate_ \in -32768 .. -1
                        /\ Hi16u(instr.immediate_) = 65535
                        /\ Lo16(instr.immediate_) = field

\* the field 0x8000 has been decoded as -32768
C36_Witness ==
    /\ Len(decoded) = 1
    /\ decoded[1].hasImmediate
    /\ ImmediateField(instruction_) = 32768
    /\ decoded[1].immediate_ = -32768

(***************************************************************************)
(* C37.  For ORI, ANDI and XORI the Execute stage and execute_logical      *)
(* compute the same result, the rs value combined with the immediate       *)
(* zero-extended to 32 bits, for every rs value and every immediate, those *)
(* with bit 15 set included.                                               *)
(***************************************************************************)
\* both have been called for simulator f and its register file
BothCalled(f) ==
    /\ log[f][1].executed > 0
    /\ \E i \in 1 .. Len(calls) : calls[i].rf = f /\ calls[i].error = "none"

ZeroExtended(slot) ==
    LET a == slot.rs_value
        imm == ImmediateField(slot.instruction)
    IN  CASE OpcodeBits(slot.instruction) = ORI  -> Or32(a, imm)
          [] OpcodeBits(slot.instruction) = ANDI -> And32(a, imm)
          [] OpcodeBits(slot.instruction) = XORI -> Xor32(a, imm)

C37_LogicalImmediates ==
    \A f \in Sims :
        LET slot == pipeline[f][EXECUTE]
        IN  (BothCalled(f) /\ OpcodeBits(slot.instruction) \in {ORI, ANDI, XORI}) =>
                /\ slot.alu_result = registers[f][Instr(slot).rt_]
                /\ slot.alu_result = ZeroExtended(slot)

\* the same, for the immediates without bit 15
C37_LogicalSmallImmediates ==
    \A f \in Sims :
        LET slot == pipeline[f][EXECUTE]
        IN  ( /\ BothCalled(f)
              /\ OpcodeBits(slot.instruction) \in {ORI, ANDI, XORI}
              /\ ImmediateField(slot.instruction) < 32768 ) =>
                /\ slot.alu_result = registers[f][Instr(slot).rt_]
                /\ slot.alu_result = ZeroExtended(slot)

(***************************************************************************)
(* C38.  After every call of cycle() the Fetch slot is occupied only if    *)
(* that cycle stalled, and then the Decode slot is occupied and the        *)
(* Execute slot is empty; so at most four of the five slots are occupied   *)
(* between cycles, and the Fetch slot is empty whenever a branch resolves. *)
(***************************************************************************)
OccupiedSlots(f) == { stage \in 0 .. NUM_STAGES - 1 : pipeline[f][stage].valid }

\* the slots between two calls
FetchHeldOnlyByStall(f) ==
    /\ pipeline[f][FETCH].valid =>
           /\ stall[f]
           /\ pipeline[f][DECODE].valid
           /\ ~pipeline[f][EXECUTE].valid
    /\ Cardinality(OccupiedSlots(f)) <= NUM_STAGES - 1

\* a branch instruction is in Execute when cycle() is called
BranchResolves(f) ==
    /\ pipeline[f][EXECUTE].valid
    /\ Instr(pipeline[f][EXECUTE]).opcode_ \in {BZ, BEQ, JR}

C38_FetchSlot ==
    [][\A f \in Sims :
          /\ FetchHeldOnlyByStall(f)'
          /\ (Ran(f) /\ BranchResolves(f)) => ~pipeline[f][FETCH].valid]_vars

\* an instruction is held in Fetch under a stall with four slots occupied,
\* in a run in which a branch has resolved in Execute
C38_Witness ==
    \E f \in Sims :
        /\ pipeline[f][FETCH].valid /\ stall[f]
        /\ Cardinality(OccupiedSlots(f)) = NUM_STAGES - 1
        /\ \E b \in Fetched(f) :
               /\ log[f][b].executed > 0
               /\ OpcodeBits(log[f][b].word) \in {BZ, BEQ, JR}

(***************************************************************************)
(* C39.  Instructions reach Writeback in the order in which they were      *)
(* fetched: no instruction overtakes an older one in any stage, and a      *)
(* stall or a taken-branch flush never removes or delays past a younger    *)
(* instruction any instruction older than the one that stalls or branches. *)
(* Instructions are numbered in fetch order (the id of a slot, the index   *)
(* of its entry in log).                                                   *)
(***************************************************************************)
\* the slots hold older instructions the further along they are
OlderAhead(pl) ==
    \A a, b \in 0 .. NUM_STAGES - 1 :
        (a < b /\ pl[a].valid /\ pl[b].valid) => pl[a].id > pl[b].id

\* wherever the younger instruction j has been, the older i was there
\* before it, unless i was flushed
Before(i, j) ==
    /\ j.decoded > 0   => (i.flushed > 0 \/ (0 < i.decoded /\ i.decoded < j.decoded))
    /\ j.executed > 0  => (i.flushed > 0 \/ (0 < i.executed /\ i.executed < j.executed))
    /\ j.accessed > 0  => (i.flushed > 0 \/ (0 < i.accessed /\ i.accessed < j.accessed))
    /\ j.committed > 0 => (i.flushed > 0 \/ (0 < i.committed /\ i.committed < j.committed))

\* the call neither removes nor holds back what is ahead of Decode: the
\* instructions in Execute and Memory move on by one slot, whether the call
\* stalls, takes a branch or does neither; only instructions younger than a
\* taken branch are flushed
OlderUnaffected(f) ==
    /\ SameInstruction(pipeline'[f][MEMORY], pipeline[f][EXECUTE])
    /\ SameInstruction(pipeline'[f][WRITEBACK], pipeline[f][MEMORY])
    /\ \A i \in Fetched(f)' :
           log'[f][i].flushed = clockCycles'[f] =>
               /\ TakenNow(f)
               /\ i > pipeline[f][EXECUTE].id

C39_FetchOrder ==
    [][\A f \in Sims :
          /\ OlderAhead(pipeline'[f])
          /\ \A i, j \in Fetched(f)' : i < j => Before(log'[f][i], log'[f][j])
          /\ Advanced(f) => OlderUnaffected(f)]_vars

\* an instruction fetched after a flushed one has been written back, after
\* a stall, behind the branch that flushed
C39_Witness ==
    \E f \in Sims :
        /\ stalls[f] > 0
        /\ \E b, i, j \in Fetched(f) :
               /\ b < i /\ i < j
               /\ log[f][b].taken /\ log[f][b].committed > 0
               /\ log[f][i].flushed > 0
               /\ log[f][j].committed > log[f][b].committed

(***************************************************************************)
(* C40.  The stall signal is never true in more than two consecutive       *)
(* cycles with forwarding disabled, nor in more than one cycle in a row    *)
(* with forwarding enabled, so the instruction held in Decode always       *)
(* advances after a bounded wait and the pipeline cannot stall forever.    *)
(***************************************************************************)
MaxStallRun(f) == IF forward[f] THEN 1 ELSE 2

\* the number of cycles the instruction in Decode has been held there, the
\* present one included, when the stall signal is true; 0 when it is false
StallRun(f) ==
    IF stall[f] /\ pipeline[f][DECODE].valid
    THEN clockCycles[f] - log[f][pipeline[f][DECODE].id].entered + 1
    ELSE 0

C40_BoundedStall ==
    [][\A f \in Sims :
          Advanced(f) =>
              \* StallRun counts the consecutive cycles with stall true
              /\ stall'[f] => (pipeline'[f][DECODE].valid /\ StallRun(f)' = StallRun(f) + 1)
              /\ StallRun(f)' <= MaxStallRun(f)
              \* at the bound the held instruction is decoded in the next cycle
              /\ (StallRun(f) = MaxStallRun(f)) =>
                     /\ ~stall'[f]
                     /\ log'[f][pipeline[f][DECODE].id].decoded = clockCycles'[f]]_vars

\* the run without forwarding held an instruction in Decode for two cycles
\* in a row, and the run with forwarding is at the end of a stalled cycle
C40_Witness ==
    /\ \E i \in Fetched(FALSE) :
           /\ log[FALSE][i].decoded > 0
           /\ Held(log[FALSE][i]) = 2
    /\ StallRun(TRUE) = 1 /\ error[TRUE] = "none"

====
